---- MODULE Spec2Model ----
(***************************************************************************)
(* The event-sourcing engine of krill: DiskAggregateStore (agg_store.rs)   *)
(* over the key store, with the Person aggregate of the eventsourcing      *)
(* tests (mod.rs) as the aggregate type.                                   *)
(*                                                                         *)
(* The key store behind DiskAggregateStore (store.rs: get_info, save_info, *)
(* store_event, store_command, store_snapshot, get_aggregate, ...) is not  *)
(* part of the sources; its operations are modelled from spec.md 4.3-4.5   *)
(* and section 6 and are kept apart in the section "Key store".            *)
(*                                                                         *)
(* A command record keeps its time, which recover copies into             *)
(* info.last_update; its actor and summary are not modelled (no operation  *)
(* of the store reads them back).                                          *)
(***************************************************************************)
EXTENDS Integers, Sequences, FiniteSets, TLC

VARIABLES
    disk,    \* the key store: for every handle the keys of its scope
    cache,   \* DiskAggregateStore.cache: handle -> Option<Arc<A>>
    pc,      \* per thread: position inside DiskAggregateStore::command
    call,    \* per thread: the command it submitted
    loc,     \* per thread: the locals of command (info, latest, events, ...)
    ret,     \* per thread: the value the last call returned
    pre,     \* per thread in command: disk and cache when it took the lock (history)
    seen,    \* per thread: the latest version its command found (history)
    heard,   \* per listener and handle: the events listen() was called with
    arcs,    \* which Arc<A> point to one allocation, and a handle a caller kept
    kv,      \* the kvx backend: for every namespace the value stored under each key
    signed   \* the calls that reached the signer backends

vars == <<disk, cache, pc, call, loc, ret, pre, seen, heard, arcs, kv, signed>>

----------------------------------------------------------------------------
(* Bounds *)

MaxCmds == 3        \* calls are accepted while fewer command records exist
MaxTime == 1        \* Time::now() is drawn from 0..MaxTime
MaxKeys == 2        \* the keys one namespace of the key-value store holds
MaxExpected == 3    \* an expected version is drawn from 1..MaxExpected

Handles == {"alice", "bob"}
Names == {"smith"}
Threads == {1, 2}
Times == 0..MaxTime
FixedTime == {0}      \* the clock of the runs in which no property reads the time

SNAPSHOT_FREQ == 5
TooOldAge == 255

----------------------------------------------------------------------------
(* Option and map helpers *)

None == <<>>
Some(x) == <<x>>
IsSome(o) == o # <<>>
Unwrap(o) == o[1]

EmptyMap == [k \in {} |-> k]
HasKey(m, k) == k \in DOMAIN m
Put(m, k, v) == [x \in (DOMAIN m) \cup {k} |-> IF x = k THEN v ELSE m[x]]
Del(m, k) == [x \in (DOMAIN m) \ {k} |-> m[x]]

\* a namespace is its name with the prefixes prefixed_namespace has put before it
prefixed_namespace(namespace, prefix) == <<prefix>> \o namespace

Current == <<"ns">>
Namespaces ==
    {Current, prefixed_namespace(Current, "archive"), prefixed_namespace(Current, "upgrade")}

SetMax(S) == CHOOSE x \in S : \A y \in S : y <= x

Ok(v) == [ok |-> TRUE, val |-> v]
Err(e) == [ok |-> FALSE, err |-> e]

----------------------------------------------------------------------------
(* Person, the aggregate of the eventsourcing tests *)

OtherHandle(h) == CHOOSE o \in Handles : o # h

InitPersonEvent(h, name) ==
    [handle |-> h, version |-> 0, details |-> [kind |-> "Init", name |-> name]]

had_birthday(p) ==
    [handle |-> p.id, version |-> p.version,
     details |-> [kind |-> "HadBirthday"]]

name_changed(p, name) ==
    [handle |-> p.id, version |-> p.version,
     details |-> [kind |-> "NameChanged", name |-> name]]

\* Names no Person rejects but the Aggregate contract allows init to reject:
\* A::init returns a Result, and add maps its error to InitError
RejectedNames == {"rejected"}

init(event) ==
    IF event.details.name \in RejectedNames THEN Err("PersonError")
    ELSE Ok([id |-> event.handle, version |-> 1, name |-> event.details.name, age |-> 0])

apply(p, event) ==
    IF event.details.kind = "NameChanged"
    THEN [p EXCEPT !.name = event.details.name, !.version = p.version + 1]
    ELSE [p EXCEPT !.age = p.age + 1, !.version = p.version + 1]

\* Commands no Person has but the Aggregate contract allows: an empty event
\* list, an error, several events, and events of the wrong version or handle.
process_other(p, details) ==
    CASE details.kind = "Nothing" -> Ok(<<>>)
      [] details.kind = "Reject" -> Err("Rejected")
      [] details.kind = "Twice" ->
            Ok(<<had_birthday(p), had_birthday([p EXCEPT !.version = p.version + 1])>>)
      [] details.kind = "WrongVersion" ->
            Ok(<<had_birthday([p EXCEPT !.version = p.version + 1])>>)
      [] details.kind = "WrongSecond" ->
            Ok(<<had_birthday(p), had_birthday([p EXCEPT !.version = p.version + 2])>>)
      [] details.kind = "WrongHandle" ->
            Ok(<<had_birthday([p EXCEPT !.id = OtherHandle(p.id)])>>)
      [] details.kind = "WrongSecondHandle" ->
            Ok(<<had_birthday(p),
                 had_birthday([p EXCEPT !.id = OtherHandle(p.id), !.version = p.version + 1])>>)

process_command(p, command) ==
    CASE command.details.kind = "ChangeName" ->
            Ok(<<name_changed(p, command.details.name)>>)
      [] command.details.kind = "GoAroundTheSun" ->
            IF p.age = TooOldAge THEN Err("TooOld") ELSE Ok(<<had_birthday(p)>>)
      [] OTHER -> process_other(p, command.details)

PersonDetails ==
    {[kind |-> "GoAroundTheSun"], [kind |-> "ChangeName", name |-> "doe"]}

OtherDetails ==
    {[kind |-> k] : k \in {"Nothing", "Reject", "Twice", "WrongVersion",
                           "WrongSecond", "WrongHandle", "WrongSecondHandle"}}

\* SentCommand::new(id, version, details)
SentCommand(h, version, details) ==
    [handle |-> h, version |-> version, details |-> details]

ExpectedVersions == {None} \cup {Some(v) : v \in 1..MaxExpected}

\* every kind of command with every expected version for one aggregate, the
\* commands of a second aggregate in between
Commands ==
    {SentCommand("alice", v, d) : v \in ExpectedVersions,
                                  d \in PersonDetails \cup OtherDetails}
    \cup {SentCommand("bob", None, [kind |-> k]) : k \in {"GoAroundTheSun", "Reject"}}

----------------------------------------------------------------------------
(* Key store: the scope of one aggregate and the operations on it *)

EmptyScope ==
    [evts |-> EmptyMap,          \* delta-<version>: event records
     cmds |-> EmptyMap,          \* command-<sequence>: command records
     snap |-> None,              \* snapshot.json
     bk |-> None,                \* snapshot-bk.json
     info |-> None,              \* info.json
     surplus_evts |-> EmptyMap,  \* surplus/delta-<version>
     surplus_cmds |-> EmptyMap]  \* surplus/command-<sequence>

\* a blob that is stored but cannot be deserialised
Corrupt == [corrupt |-> TRUE]
IsCorrupt(blob) == "corrupt" \in DOMAIN blob

StoredValueInfo(last_event, last_command, snapshot_version, last_update) ==
    [last_event |-> last_event, last_command |-> last_command,
     snapshot_version |-> snapshot_version, last_update |-> last_update]

\* StoredValueInfo::default()
DefaultInfo(now) == StoredValueInfo(0, 0, 0, now)

get_info(d, h) ==
    IF IsSome(d[h].info) /\ ~IsCorrupt(Unwrap(d[h].info))
    THEN Ok(Unwrap(d[h].info))
    ELSE Err("KeyStoreError")

save_info(d, h, info) == [d EXCEPT ![h].info = Some(info)]

get_event(d, h, version) ==
    IF ~HasKey(d[h].evts, version) THEN Ok(None)
    ELSE IF IsCorrupt(d[h].evts[version]) THEN Err("KeyStoreError")
    ELSE Ok(Some(d[h].evts[version]))

\* an event is stored under the scope of its own handle and never replaced
store_event(d, event) ==
    IF HasKey(d[event.handle].evts, event.version)
    THEN Err("KeyStoreError")
    ELSE Ok([d EXCEPT ![event.handle].evts = Put(@, event.version, event)])

get_command(d, h, sequence) ==
    IF ~HasKey(d[h].cmds, sequence) \/ IsCorrupt(d[h].cmds[sequence])
    THEN Err("KeyStoreError")
    ELSE Ok(d[h].cmds[sequence])

store_command(d, command) ==
    IF HasKey(d[command.handle].cmds, command.sequence)
    THEN Err("KeyStoreError")
    ELSE Ok([d EXCEPT ![command.handle].cmds = Put(@, command.sequence, command)])

\* variant: the state of the previous snapshot is written under the new version
store_snapshot_stale_state(d, h, agg) ==
    [d EXCEPT ![h].bk = IF IsSome(d[h].snap) THEN d[h].snap ELSE @,
              ![h].snap = IF IsSome(d[h].snap)
                          THEN Some([Unwrap(d[h].snap) EXCEPT !.version = agg.version])
                          ELSE Some(agg)]

\* the previous snapshot is rotated to the backup snapshot
store_snapshot(d, h, agg) ==
    [d EXCEPT ![h].bk = IF IsSome(d[h].snap) THEN d[h].snap ELSE @,
              ![h].snap = Some(agg)]

\* move a command record to the surplus sub-scope
archive_surplus(d, h, sequence) ==
    [d EXCEPT ![h].surplus_cmds = Put(@, sequence, d[h].cmds[sequence]),
              ![h].cmds = Del(@, sequence)]

\* move every event with version >= from to the surplus sub-scope
archive_surplus_events(d, h, from) ==
    LET moved == {v \in DOMAIN d[h].evts : v >= from}
    IN [d EXCEPT
          ![h].surplus_evts =
              [v \in (DOMAIN @) \cup moved |->
                  IF v \in moved THEN d[h].evts[v] ELSE @[v]],
          ![h].evts = [v \in (DOMAIN @) \ moved |-> @[v]]]

command_keys_ascending(d, h) == DOMAIN d[h].cmds

\* the handles that have any key
aggregates(d) == {h \in Handles : d[h] # EmptyScope}

has_aggregate(d, h) == HasKey(d[h].evts, 0)

\* apply the stored events agg.version .. limit in ascending order
RECURSIVE apply_events(_, _, _, _)
apply_events(d, h, agg, limit) ==
    IF agg.version > limit THEN Ok(agg)
    ELSE LET e == get_event(d, h, agg.version)
         IN IF ~e.ok \/ ~IsSome(e.val) THEN Err("KeyStoreError")
            ELSE apply_events(d, h, apply(agg, Unwrap(e.val)), limit)

\* limit None: up to the highest stored event
update_aggregate(d, h, agg, limit) ==
    LET stored == DOMAIN d[h].evts
        last == IF IsSome(limit) THEN Unwrap(limit)
                ELSE IF stored = {} THEN 0 ELSE SetMax(stored)
    IN apply_events(d, h, agg, last)

SnapshotUsable(s, limit) ==
    /\ IsSome(s)
    /\ ~IsCorrupt(Unwrap(s))
    /\ (IsSome(limit) => Unwrap(s).version <= Unwrap(limit) + 1)

\* snapshot, else backup snapshot, else init event; then the newer events.
\* Ok(None) when there is nothing to start from.
initialised(a) == IF a.ok THEN Ok(Some(a.val)) ELSE Err("KeyStoreError")

start_aggregate(d, h, limit, e0) ==
    IF SnapshotUsable(d[h].snap, limit) THEN Ok(d[h].snap)
    ELSE IF SnapshotUsable(d[h].bk, limit) THEN Ok(d[h].bk)
    ELSE IF ~e0.ok THEN e0
    ELSE IF ~IsSome(e0.val) THEN Ok(None)
    ELSE initialised(init(Unwrap(e0.val)))

updated(u) == IF u.ok THEN Ok(Some(u.val)) ELSE u

update_from(d, h, limit, start) ==
    IF ~start.ok THEN start
    ELSE IF ~IsSome(start.val) THEN Ok(None)
    ELSE updated(update_aggregate(d, h, Unwrap(start.val), limit))

get_aggregate(d, h, limit) ==
    update_from(d, h, limit, start_aggregate(d, h, limit, get_event(d, h, 0)))

----------------------------------------------------------------------------
(* DiskAggregateStore *)

EmptyCache == [h \in Handles |-> None]

cache_get(c, h) == c[h]

cache_update(c, h, arc) == [c EXCEPT ![h] = Some(arc)]

\* Ok(true) when the event numbered aggregate.version() is stored
has_updates(d, h, aggregate) ==
    LET e == get_event(d, h, aggregate.version)
    IN IF e.ok THEN Ok(IsSome(e.val)) ELSE e

\* The aggregate returned and the cache left behind.  A cached instance that
\* is behind the stored events is upgraded in a private copy (Arc::make_mut
\* on the clone taken from the cache): the cache keeps the old instance.
\* nothing cached: the aggregate is loaded from the store and cached
latest_from_store(c, h, g) ==
    IF ~g.ok THEN [res |-> g, cache |-> c]
    ELSE IF ~IsSome(g.val)
         THEN [res |-> Err("UnknownAggregate"), cache |-> c]
         ELSE [res |-> Ok(Unwrap(g.val)),
               cache |-> cache_update(c, h, Unwrap(g.val))]

\* variant: the cached instance is returned as it is
latest_from_cache_as_cached(c, d, h, arc, upd) ==
    IF ~upd.ok THEN [res |-> upd, cache |-> c]
    ELSE [res |-> Ok(arc), cache |-> c]

\* cached: the instance is upgraded when newer events are stored
latest_from_cache(c, d, h, arc, upd) ==
    IF ~upd.ok THEN [res |-> upd, cache |-> c]
    ELSE IF upd.val
         THEN [res |-> update_aggregate(d, h, arc, None), cache |-> c]
         ELSE [res |-> Ok(arc), cache |-> c]

get_latest_no_lock(c, d, h) ==
    IF ~IsSome(cache_get(c, h))
    THEN latest_from_store(c, h, get_aggregate(d, h, None))
    ELSE latest_from_cache(c, d, h, Unwrap(cache_get(c, h)),
                           has_updates(d, h, Unwrap(cache_get(c, h))))

\* variant: the write side is given up before info is saved
WriteLockedUntilSave == \E t \in Threads : pc[t] \notin {"idle", "wait", "done", "save_info"}

\* outer_lock: command and add hold the write side from entry to return
WriteLocked == \E t \in Threads : pc[t] \notin {"idle", "wait", "done"}

\* variant: command does not take the lock
LockFreeAlways == TRUE

LockFree == ~WriteLocked

\* the listeners registered with add_listener before the store is shared
Listeners == {"counter", "audit"}

\* nothing handed to a listener yet
NotHeard == [h \in Handles |-> <<>>]

\* Arc<A>: kept is a handle a caller held on to (its aggregate when it was
\* returned, val; what its allocation holds now, cur; whether the cache entry
\* of its handle is the same allocation, cached; the commands that stored
\* events for it since, after).  shared[t]: the Arc returned to t is the
\* allocation of the cache entry.  inplace[t]: command writes through its
\* Arc to the allocation of the cache entry.
NoArcs ==
    [kept |-> None,
     shared |-> [t \in Threads |-> FALSE],
     inplace |-> [t \in Threads |-> FALSE]]

\* variant: the aggregate is changed where it is, other Arcs or not
make_mut_in_place(shared) == FALSE

\* Arc::make_mut: TRUE when the value is cloned into a new allocation, which
\* is so when another Arc points to the same allocation
make_mut(shared) == shared

\* get_latest_no_lock finds a cached instance that is behind the store
upgrades(c, d, h) ==
    /\ IsSome(cache_get(c, h))
    /\ has_updates(d, h, Unwrap(cache_get(c, h))).ok
    /\ has_updates(d, h, Unwrap(cache_get(c, h))).val

\* the Arc that get_latest_no_lock returns is the allocation of the cache
\* entry: Arc::new with cache_update(arc.clone()), or the clone from cache_get
\* unless make_mut gave it an allocation of its own
returns_cached(c, d, h) == ~(upgrades(c, d, h) /\ make_mut(TRUE))

\* the kept handle after agg was written to the allocation of the cache entry
written(k, h, agg) ==
    IF IsSome(k) /\ Unwrap(k).handle = h /\ Unwrap(k).cached
    THEN Some([Unwrap(k) EXCEPT !.cur = agg])
    ELSE k

\* the kept handle after get_latest_no_lock returned res
kept_after_latest(k, c, d, h, res) ==
    IF upgrades(c, d, h) /\ ~make_mut(TRUE) /\ res.ok THEN written(k, h, res.val) ELSE k

\* the kept handle after the cache entry of h was replaced by a new Arc
replaced(k, h, n) ==
    IF IsSome(k) /\ Unwrap(k).handle = h
    THEN Some([Unwrap(k) EXCEPT !.cached = FALSE, !.after = @ + n])
    ELSE k

\* the number of events a listener was handed
NrHeard(hd) ==
    LET n(l) == Len(hd[l]["alice"]) + Len(hd[l]["bob"])
    IN SetMax({n(l) : l \in Listeners})

NoLoc == [kind |-> "none"]

NoCall == [kind |-> "none"]

Snapshot == [disk |-> disk, cache |-> cache]

\* Time::now(): the clock does not run backwards, so no reading is earlier
\* than a last_update already stored
Now(d, times) ==
    {now \in times :
        \A h \in Handles :
            IsSome(d[h].info) => now >= Unwrap(d[h].info).last_update}

\* the number of command records stored, surplus included
NrCommands(d) ==
    LET n(h) == Cardinality(DOMAIN d[h].cmds) + Cardinality(DOMAIN d[h].surplus_cmds)
    IN n("alice") + n("bob")

Init ==
    /\ disk = [h \in Handles |-> EmptyScope]
    /\ cache = EmptyCache
    /\ pc = [t \in Threads |-> "idle"]
    /\ call = [t \in Threads |-> NoCall]
    /\ loc = [t \in Threads |-> NoLoc]
    /\ ret = [t \in Threads |-> None]
    /\ pre = [t \in Threads |-> None]
    /\ seen = [t \in Threads |-> None]
    /\ heard = [l \in Listeners |-> NotHeard]
    /\ arcs = NoArcs
    /\ kv = [ns \in Namespaces |-> EmptyMap]
    /\ signed = {}

\* variant: the result of store_event is not looked at
add_effect_unchecked(d, c, event, now) ==
    LET h == event.handle
        stored == store_event(d, event)
        aggregate == init(event)
    IN [res |-> Ok(aggregate.val),
        disk |-> save_info(store_snapshot(IF stored.ok THEN stored.val ELSE d,
                                          h, aggregate.val),
                           h, DefaultInfo(now)),
        cache |-> cache_update(c, h, aggregate.val)]

\* add(init): store the init event, init the aggregate, store the first
\* snapshot and a default info, cache the aggregate
add_effect(d, c, event, now) ==
    LET h == event.handle
        stored == store_event(d, event)
        aggregate == init(event)
    IN IF ~stored.ok THEN [res |-> stored, disk |-> d, cache |-> c]
       ELSE IF ~aggregate.ok
            THEN [res |-> Err("InitError"), disk |-> stored.val, cache |-> c]
            ELSE [res |-> Ok(aggregate.val),
                  disk |-> save_info(store_snapshot(stored.val, h, aggregate.val),
                                     h, DefaultInfo(now)),
                  cache |-> cache_update(c, h, aggregate.val)]

AddAs(t, h, names, times) ==
    /\ pc[t] = "idle"
    /\ LockFree
    /\ \E name \in names, now \in Now(disk, times) :
          LET r == add_effect(disk, cache, InitPersonEvent(h, name), now)
          IN /\ disk' = r.disk
             /\ cache' = r.cache
             /\ ret' = [ret EXCEPT ![t] = Some([op |-> "add", handle |-> h, res |-> r.res])]
             /\ arcs' = [arcs EXCEPT !.shared[t] = r.res.ok]
    /\ pc' = [pc EXCEPT ![t] = "done"]
    /\ UNCHANGED <<call, loc, pre, seen, heard, kv, signed>>

Add(t, h, times) == AddAs(t, h, Names, times)

----------------------------------------------------------------------------
(* DiskAggregateStore::command *)

\* variant: only an expected version ahead of the latest one is a conflict
version_conflict_newer_only(cmd, latest) ==
    IsSome(cmd.version) /\ Unwrap(cmd.version) > latest.version

\* the caller's expected version differs from the latest version
version_conflict(cmd, latest) ==
    IsSome(cmd.version) /\ Unwrap(cmd.version) # latest.version

\* variant: the handle of the events is not checked
events_match_ignoring_handle(events, version_before, handle) ==
    \A i \in 1..Len(events) : events[i].version = version_before + (i - 1)

\* variant: the version of the events is not checked
events_match_ignoring_version(events, version_before, handle) ==
    \A i \in 1..Len(events) : events[i].handle = handle

\* variant: only the first event is checked
events_match_first_only(events, version_before, handle) ==
    /\ events[1].version = version_before
    /\ events[1].handle = handle

\* every event is for this aggregate and the versions are contiguous from
\* version_before
events_match(events, version_before, handle) ==
    \A i \in 1..Len(events) :
        /\ events[i].version = version_before + (i - 1)
        /\ events[i].handle = handle

StoredCommandBuilder(cmd, version, sequence, now) ==
    [handle |-> cmd.handle, version |-> version, sequence |-> sequence,
     time |-> now, details |-> cmd.details]

finish_with_error(builder, e) ==
    [handle |-> builder.handle, version |-> builder.version,
     sequence |-> builder.sequence, time |-> builder.time,
     details |-> builder.details,
     effect |-> [type |-> "error", msg |-> e]]

finish_with_events(builder, events) ==
    [handle |-> builder.handle, version |-> builder.version,
     sequence |-> builder.sequence, time |-> builder.time,
     details |-> builder.details,
     effect |-> [type |-> "success",
                 events |-> [i \in 1..Len(events) |-> events[i].version]]]

CommandLocals(h, info, agg, builder, events, res) ==
    [kind |-> "cmd", handle |-> h, info |-> info, agg |-> agg,
     builder |-> builder, events |-> events, i |-> 1, res |-> res]

Returned(op, h, res) == Some([op |-> op, handle |-> h, res |-> res])

\* variant: the sequence is not advanced
next_info_same_sequence(info, now) ==
    [info EXCEPT !.last_update = now]

\* info.last_update = Time::now(); info.last_command += 1
next_info(info, now) ==
    [info EXCEPT !.last_update = now, !.last_command = @ + 1]

\* info.last_event += nr_events
info_with_events(info, events) ==
    [info EXCEPT !.last_event = @ + Len(events)]

\* variant: an empty event list is stored like any other
no_events_never(events) == FALSE

no_events(events) == Len(events) = 0

\* variant: Ok([]) falls through to save_info
noop_outcome_saving_info(c, h, info, latest, builder) ==
    [done |-> FALSE, cache |-> c, start |-> "save_info",
     loc |-> CommandLocals(h, info, latest, builder, <<>>, Ok(latest))]

\* Ok([]): return the latest aggregate, info is not saved
noop_outcome(c, h, info, latest, builder) ==
    [done |-> TRUE, res |-> Ok(latest), cache |-> c]

\* Err(e): the command is stored with the error, then info is saved
error_outcome(c, h, info, latest, builder, e) ==
    [done |-> FALSE, cache |-> c, start |-> "store_cmd",
     loc |-> CommandLocals(h, info, latest, builder, <<>>, e)]

\* command up to its first write: read info, load the latest aggregate,
\* check the expected version, process the command, check the events.
\* done: the call returns res without writing; else the writes start at
\* position start with the locals loc.
\* the match on process_command's result, after the version check
command_processed(c, h, cmd, info, latest, builder, processed) ==
    IF version_conflict(cmd, latest)
    THEN [done |-> TRUE, res |-> Err("ConcurrentModification"), cache |-> c]
    ELSE IF ~processed.ok
         THEN error_outcome(c, h, info, latest, builder, processed)
    ELSE IF no_events(processed.val)
         THEN noop_outcome(c, h, info, latest, builder)
    ELSE IF ~events_match(processed.val, latest.version, h)
         THEN [done |-> TRUE, res |-> Err("WrongEventForAggregate"), cache |-> c]
    ELSE [done |-> FALSE, cache |-> c, start |-> "store_cmd",
          loc |-> CommandLocals(h, info_with_events(info, processed.val), latest,
                                builder, processed.val, Ok(latest))]

\* with info read and the latest aggregate looked up (gl)
command_loaded(cmd, info, gl, now) ==
    IF ~gl.res.ok THEN [done |-> TRUE, res |-> gl.res, cache |-> gl.cache]
    ELSE command_processed(gl.cache, cmd.handle, cmd, info, gl.res.val,
             StoredCommandBuilder(cmd, gl.res.val.version, info.last_command, now),
             process_command(gl.res.val, cmd))

\* with the result of get_info (gi)
command_info(c, d, cmd, now, gi) ==
    IF ~gi.ok THEN [done |-> TRUE, res |-> gi, cache |-> c]
    ELSE command_loaded(cmd, next_info(gi.val, now),
                        get_latest_no_lock(c, d, cmd.handle), now)

command_begin(c, d, cmd, now) ==
    command_info(c, d, cmd, now, get_info(d, cmd.handle))

\* the version of the latest aggregate as command finds it
found(gi, gl) ==
    IF gi.ok /\ gl.res.ok THEN Some(gl.res.val.version) ELSE None

found_version(c, d, h) == found(get_info(d, h), get_latest_no_lock(c, d, h))

\* the caller's position and locals after the part of command before its
\* first write (b): returned, or about to write
begun_arcs(t, h, b, gi, gl) ==
    [kept |-> IF gi.ok THEN kept_after_latest(arcs.kept, cache, disk, h, gl.res)
              ELSE arcs.kept,
     shared |-> [arcs.shared EXCEPT ![t] =
                    b.done /\ b.res.ok /\ returns_cached(cache, disk, h)],
     inplace |-> [arcs.inplace EXCEPT ![t] =
                    /\ ~b.done
                    /\ b.loc.res.ok
                    /\ returns_cached(cache, disk, h)
                    /\ ~make_mut(returns_cached(cache, disk, h))]]

begun(t, cmd, b) ==
    /\ cache' = b.cache
    /\ arcs' = begun_arcs(t, cmd.handle, b, get_info(disk, cmd.handle),
                          get_latest_no_lock(cache, disk, cmd.handle))
    /\ IF b.done
       THEN /\ pc' = [pc EXCEPT ![t] = "done"]
            /\ ret' = [ret EXCEPT ![t] = Returned("command", cmd.handle, b.res)]
            /\ loc' = [loc EXCEPT ![t] = NoLoc]
            /\ pre' = [pre EXCEPT ![t] = None]
       ELSE /\ pc' = [pc EXCEPT ![t] = b.start]
            /\ ret' = [ret EXCEPT ![t] = None]
            /\ loc' = [loc EXCEPT ![t] = b.loc]
            /\ pre' = [pre EXCEPT ![t] = Some(Snapshot)]

\* command from its entry to its first write, while fewer than max command
\* records are stored
BeginWithin(t, cmd, times, max) ==
    /\ LockFree
    /\ NrCommands(disk) < max
    /\ NrHeard(heard) < 2 * max
    /\ \E now \in Now(disk, times) : begun(t, cmd, command_begin(cache, disk, cmd, now))
    /\ call' = [call EXCEPT ![t] = cmd]
    /\ seen' = [seen EXCEPT ![t] = found_version(cache, disk, cmd.handle)]
    /\ UNCHANGED <<disk, heard, kv, signed>>

Begin(t, cmd, times) == BeginWithin(t, cmd, times, MaxCmds)

\* a caller enters command while no other call is pending
Call(t, cmd, times) ==
    /\ pc[t] = "idle"
    /\ Begin(t, cmd, times)

\* a storage error ends the call: the error is returned, info is not saved
Fail(t, e) ==
    /\ pc' = [pc EXCEPT ![t] = "done"]
    /\ ret' = [ret EXCEPT ![t] = Returned("command", loc[t].handle, e)]
    /\ loc' = [loc EXCEPT ![t] = NoLoc]
    /\ pre' = [pre EXCEPT ![t] = None]
    /\ arcs' = [arcs EXCEPT !.shared[t] = FALSE, !.inplace[t] = FALSE]
    /\ UNCHANGED <<disk, cache, call, seen, heard, kv, signed>>

StoreCommand(t) ==
    /\ pc[t] = "store_cmd"
    /\ LET l == loc[t]
           stored_command == IF l.res.ok
                             THEN finish_with_events(l.builder, l.events)
                             ELSE finish_with_error(l.builder, l.res.err)
           r == store_command(disk, stored_command)
       IN IF ~r.ok THEN Fail(t, r)
          ELSE /\ disk' = r.val
               /\ pc' = [pc EXCEPT ![t] =
                            IF ~l.res.ok THEN "save_info"
                            ELSE IF l.i > Len(l.events) THEN "publish"
                            ELSE "store_evt"]
               /\ UNCHANGED <<cache, call, loc, ret, pre, seen, heard, arcs, kv, signed>>

\* variant: a snapshot after every event
snapshot_due_always(agg) == TRUE

snapshot_due(agg) == agg.version % SNAPSHOT_FREQ = 0

StoreEvent(t) ==
    /\ pc[t] = "store_evt"
    /\ LET l == loc[t]
           event == l.events[l.i]
           r == store_event(disk, event)
           agg == apply(l.agg, event)
       IN IF ~r.ok THEN Fail(t, r)
          ELSE /\ disk' = r.val
               /\ loc' = [loc EXCEPT ![t] =
                            [l EXCEPT !.agg = agg, !.i = @ + 1,
                                      !.info.snapshot_version =
                                          IF snapshot_due(agg) THEN agg.version ELSE @]]
               /\ pc' = [pc EXCEPT ![t] =
                            IF snapshot_due(agg) THEN "snapshot"
                            ELSE IF l.i = Len(l.events) THEN "publish"
                            ELSE "store_evt"]
               /\ arcs' = [arcs EXCEPT !.kept =
                              IF arcs.inplace[t] THEN written(@, l.handle, agg) ELSE @]
               /\ UNCHANGED <<cache, call, ret, pre, seen, heard, kv, signed>>

StoreSnapshot(t) ==
    /\ pc[t] = "snapshot"
    /\ LET l == loc[t]
       IN /\ disk' = store_snapshot(disk, l.handle, l.agg)
          /\ pc' = [pc EXCEPT ![t] = IF l.i > Len(l.events) THEN "publish" ELSE "store_evt"]
    /\ UNCHANGED <<cache, call, loc, ret, pre, seen, heard, arcs, kv, signed>>

\* variant: only the last event of a command is passed on
listen_last_only(hd, h, events) ==
    [l \in Listeners |-> [hd[l] EXCEPT ![h] = Append(@, events[Len(events)])]]

\* for event in events { for listener in &self.listeners {
\* listener.listen(agg, &event) } }: what each listener has been handed,
\* per aggregate, in the order of the calls
listen(hd, h, events) ==
    [l \in Listeners |-> [hd[l] EXCEPT ![h] = @ \o events]]

\* cache.insert(handle, Arc::new(agg.clone())), then the listeners
Publish(t) ==
    /\ pc[t] = "publish"
    /\ cache' = [cache EXCEPT ![loc[t].handle] = Some(loc[t].agg)]
    /\ heard' = listen(heard, loc[t].handle, loc[t].events)
    /\ arcs' = [arcs EXCEPT !.kept = replaced(@, loc[t].handle, 1)]
    /\ pc' = [pc EXCEPT ![t] = "save_info"]
    /\ UNCHANGED <<disk, call, loc, ret, pre, seen, kv, signed>>

SaveInfo(t) ==
    /\ pc[t] = "save_info"
    /\ LET l == loc[t]
       IN /\ disk' = save_info(disk, l.handle, l.info)
          /\ ret' = [ret EXCEPT ![t] =
                       Returned("command", l.handle, IF l.res.ok THEN Ok(l.agg) ELSE l.res)]
    /\ pc' = [pc EXCEPT ![t] = "done"]
    /\ loc' = [loc EXCEPT ![t] = NoLoc]
    /\ pre' = [pre EXCEPT ![t] = None]
    /\ arcs' = [arcs EXCEPT !.shared[t] = FALSE, !.inplace[t] = FALSE]
    /\ UNCHANGED <<cache, call, seen, heard, kv, signed>>

\* the Arc of a result, as the caller keeps it
kept_handle(r, shared) ==
    Some([handle |-> r.handle, val |-> r.res.val, cur |-> r.res.val,
          cached |-> shared, after |-> 0])

\* the caller takes the result, and may hold on to the Arc of a get_latest
\* or command
Return(t, keeps) ==
    /\ pc[t] = "done"
    /\ \E keep \in keeps :
          /\ keep => Unwrap(ret[t]).op \in {"get_latest", "command"} /\ Unwrap(ret[t]).res.ok
          /\ arcs' = [arcs EXCEPT
                         !.kept = IF keep THEN kept_handle(Unwrap(ret[t]), arcs.shared[t]) ELSE @,
                         !.shared[t] = FALSE]
    /\ pc' = [pc EXCEPT ![t] = "idle"]
    /\ ret' = [ret EXCEPT ![t] = None]
    /\ call' = [call EXCEPT ![t] = NoCall]
    /\ seen' = [seen EXCEPT ![t] = None]
    /\ UNCHANGED <<disk, cache, loc, pre, heard, kv, signed>>

GetLatest(t, h) ==
    /\ pc[t] = "idle"
    /\ LockFree
    /\ LET g == get_latest_no_lock(cache, disk, h)
       IN /\ cache' = g.cache
          /\ ret' = [ret EXCEPT ![t] = Returned("get_latest", h, g.res)]
          /\ arcs' = [arcs EXCEPT
                         !.kept = kept_after_latest(@, cache, disk, h, g.res),
                         !.shared[t] = g.res.ok /\ returns_cached(cache, disk, h)]
    /\ pc' = [pc EXCEPT ![t] = "done"]
    /\ UNCHANGED <<disk, call, loc, pre, seen, heard, kv, signed>>

\* DiskAggregateStore::new on the same storage: the cache starts empty
Reopen ==
    /\ \A t \in Threads : pc[t] = "idle"
    /\ cache # EmptyCache
    /\ cache' = EmptyCache
    /\ arcs' = [arcs EXCEPT !.kept = IF IsSome(@) THEN replaced(@, Unwrap(@).handle, 0) ELSE @]
    /\ UNCHANGED <<disk, pc, call, loc, ret, pre, seen, heard, kv, signed>>

\* a second caller enters command while another call may hold the lock:
\* it waits for the write lock with its command in hand
Submit(t, cmd) ==
    /\ pc[t] = "idle"
    /\ pc' = [pc EXCEPT ![t] = "wait"]
    /\ call' = [call EXCEPT ![t] = cmd]
    /\ UNCHANGED <<disk, cache, loc, ret, pre, seen, heard, arcs, kv, signed>>

Acquire(t, times) ==
    /\ pc[t] = "wait"
    /\ Begin(t, call[t], times)

Caller == 1

\* the callers drop the Arcs they are given
NoKeeps == {FALSE}

Next ==
    \/ \E h \in Handles : Add(Caller, h, FixedTime)
    \/ \E cmd \in Commands : Call(Caller, cmd, FixedTime)
    \/ StoreCommand(Caller)
    \/ StoreEvent(Caller)
    \/ StoreSnapshot(Caller)
    \/ Publish(Caller)
    \/ SaveInfo(Caller)
    \/ Return(Caller, NoKeeps)
    \/ \E h \in Handles : GetLatest(Caller, h)
    \/ Reopen

Spec == Init /\ [][Next]_vars

----------------------------------------------------------------------------
(* Concurrent callers of one store instance *)

ConcHandles == {"alice"}

ConcCommands ==
    {SentCommand(h, v, d) : h \in ConcHandles, v \in {None, Some(1), Some(2)},
                            d \in PersonDetails \cup {[kind |-> "Twice"]}}

NextConc ==
    \E t \in Threads :
        \/ \E h \in ConcHandles : Add(t, h, FixedTime)
        \/ \E cmd \in ConcCommands : Submit(t, cmd)
        \/ Acquire(t, FixedTime)
        \/ StoreCommand(t)
        \/ StoreEvent(t)
        \/ StoreSnapshot(t)
        \/ Publish(t)
        \/ SaveInfo(t)
        \/ Return(t, NoKeeps)

SpecConc == Init /\ [][NextConc]_vars

----------------------------------------------------------------------------
(* DiskAggregateStore::recover, and damage to stored blobs *)

MaxCorrupt == 1     \* at most this many stored blobs are damaged

SetMin(S) == CHOOSE x \in S : \A y \in S : x <= y

\* the versions a Success effect refers to, None for other effects
effect_events(cmd) ==
    IF cmd.effect.type = "success" THEN Some(cmd.effect.events) ELSE None

\* the loop over the events of one command: every version that loads becomes
\* last_good_evt, one that does not clears hunkydory, and the loop goes on
check_events(d, h, versions, st) ==
    LET good == {i \in 1..Len(versions) :
                    LET e == get_event(d, h, versions[i])
                    IN e.ok /\ IsSome(e.val)}
    IN [st EXCEPT
          !.last_good_evt = IF good = {} THEN @ ELSE versions[SetMax(good)],
          !.hunkydory = (good = 1..Len(versions))]

\* one pass of the loop over the command keys, in ascending order
checked_events(st, h, events) ==
    IF IsSome(events) THEN check_events(st.disk, h, Unwrap(events), st) ELSE st

\* if hunkydory: the command is read and its events are checked
checked_command(st, h, cmd) ==
    IF ~st.hunkydory THEN st
    ELSE IF ~cmd.ok THEN [st EXCEPT !.hunkydory = FALSE]
    ELSE [checked_events(st, h, effect_events(cmd.val))
             EXCEPT !.last_good_cmd = cmd.val.sequence,
                    !.last_update = cmd.val.time]

\* if !hunkydory: archive_surplus
surplus_archived(st, h, key) ==
    IF st.hunkydory THEN st
    ELSE [st EXCEPT !.disk = archive_surplus(@, h, key)]

check_command(st, h, key) ==
    surplus_archived(checked_command(st, h, get_command(st.disk, h, key)), h, key)

RECURSIVE check_commands(_, _, _)
check_commands(st, h, keys) ==
    IF keys = {} THEN st
    ELSE check_commands(check_command(st, h, SetMin(keys)), h, keys \ {SetMin(keys)})

\* recover for one handle: check the commands and their events, move what
\* follows the last good ones to surplus, rebuild, store snapshot and info
recover_start(d, now) ==
    [hunkydory |-> TRUE, last_good_cmd |-> 0, last_good_evt |-> 0,
     last_update |-> now, disk |-> d]

\* with the aggregate rebuilt (agg) from the store d1: snapshot, cache, info
rebuilt(d1, c, h, st, agg) ==
    IF ~agg.ok THEN [res |-> agg, disk |-> d1, cache |-> c]
    ELSE IF ~IsSome(agg.val)
         THEN [res |-> Err("CouldNotRecover"), disk |-> d1, cache |-> c]
         ELSE [res |-> Ok(h),
               disk |-> save_info(store_snapshot(d1, h, Unwrap(agg.val)), h,
                            StoredValueInfo(st.last_good_evt, st.last_good_cmd,
                                            Unwrap(agg.val).version, st.last_update)),
               cache |-> cache_update(c, h, Unwrap(agg.val))]

\* with the surplus events archived (d1): get_aggregate up to last_good_evt
rebuild(d1, c, h, st) ==
    rebuilt(d1, c, h, st, get_aggregate(d1, h, Some(st.last_good_evt)))

\* variant: the surplus events start at the last good event
scanned_from_last_good(c, h, st) ==
    rebuild(archive_surplus_events(st.disk, h, st.last_good_evt), c, h, st)

\* with the commands checked (st): archive_surplus_events
scanned(c, h, st) ==
    rebuild(archive_surplus_events(st.disk, h, st.last_good_evt + 1), c, h, st)

recover_handle(d, c, h, now) ==
    scanned(c, h, check_commands(recover_start(d, now), h, command_keys_ascending(d, h)))

\* the loop over list(): the first handle that fails ends recover
RECURSIVE recover_handles(_, _, _, _)
recover_next(r, handles, now) ==
    IF ~r.res.ok THEN r
    ELSE recover_handles(r.disk, r.cache, handles, now)

recover_handles(d, c, handles, now) ==
    IF handles = <<>> THEN [res |-> Ok("all"), disk |-> d, cache |-> c]
    ELSE recover_next(recover_handle(d, c, Head(handles), now), Tail(handles), now)

\* list() returns the handles in the order of the key store
Listings(d) ==
    {order \in UNION {[1..n -> aggregates(d)] : n \in 0..Cardinality(Handles)} :
        /\ Len(order) = Cardinality(aggregates(d))
        /\ \A i, j \in 1..Len(order) : i # j => order[i] # order[j]}

recovered(t, r) ==
    /\ disk' = r.disk
    /\ cache' = r.cache
    /\ ret' = [ret EXCEPT ![t] = Returned("recover", "all", r.res)]

Recover(t, times) ==
    /\ \A u \in Threads : pc[u] = "idle"
    /\ \E order \in Listings(disk), now \in Now(disk, times) :
          recovered(t, recover_handles(disk, cache, order, now))
    /\ pc' = [pc EXCEPT ![t] = "done"]
    /\ UNCHANGED <<call, loc, pre, seen, heard, arcs, kv, signed>>

NrCorrupt(d) ==
    LET n(h) == Cardinality({v \in DOMAIN d[h].evts : IsCorrupt(d[h].evts[v])})
              + Cardinality({k \in DOMAIN d[h].cmds : IsCorrupt(d[h].cmds[k])})
              + Cardinality({v \in DOMAIN d[h].surplus_evts : IsCorrupt(d[h].surplus_evts[v])})
              + Cardinality({k \in DOMAIN d[h].surplus_cmds : IsCorrupt(d[h].surplus_cmds[k])})
    IN n("alice") + n("bob")

\* the blob of a stored event is damaged (truncated) while the store is at rest
CorruptEvent(h, v, max) ==
    /\ \A t \in Threads : pc[t] = "idle"
    /\ NrCorrupt(disk) < max
    /\ v \in DOMAIN disk[h].evts
    /\ v >= 1
    /\ ~IsCorrupt(disk[h].evts[v])
    /\ disk' = [disk EXCEPT ![h].evts[v] = Corrupt]
    /\ UNCHANGED <<cache, pc, call, loc, ret, pre, seen, heard, arcs, kv, signed>>

CorruptCommand(h, k, max) ==
    /\ \A t \in Threads : pc[t] = "idle"
    /\ NrCorrupt(disk) < max
    /\ k \in DOMAIN disk[h].cmds
    /\ ~IsCorrupt(disk[h].cmds[k])
    /\ disk' = [disk EXCEPT ![h].cmds[k] = Corrupt]
    /\ UNCHANGED <<cache, pc, call, loc, ret, pre, seen, heard, arcs, kv, signed>>

RecoverCommands ==
    {SentCommand(h, None, [kind |-> k]) :
        h \in {"alice"}, k \in {"GoAroundTheSun", "Twice", "Reject"}}

NextRecover ==
    \/ \E h \in Handles : Add(Caller, h, FixedTime)
    \/ \E cmd \in RecoverCommands : Call(Caller, cmd, FixedTime)
    \/ StoreCommand(Caller)
    \/ StoreEvent(Caller)
    \/ StoreSnapshot(Caller)
    \/ Publish(Caller)
    \/ SaveInfo(Caller)
    \/ Return(Caller, NoKeeps)
    \/ Reopen
    \/ \E h \in Handles : \E v \in 1..(2 * MaxCmds) : CorruptEvent(h, v, MaxCorrupt)
    \/ \E h \in Handles : \E k \in 1..MaxCmds : CorruptCommand(h, k, MaxCorrupt)
    \/ Recover(Caller, FixedTime)

SpecRecover == Init /\ [][NextRecover]_vars

----------------------------------------------------------------------------
(* Vocabulary of the properties *)

InBody(t) == pc[t] \notin {"idle", "wait", "done"}

\* no call is between its first and its last write
Settled == \A t \in Threads : ~InBody(t)

Known(d, h) == IsSome(d[h].info)

Latest(c, d, h) == get_latest_no_lock(c, d, h).res

\* the disk and cache a returning command started from
Before(t) == IF IsSome(pre[t]) THEN Unwrap(pre[t]) ELSE [disk |-> disk, cache |-> cache]

\* this step is the return of a command call of thread t
CommandReturns(t) ==
    /\ pc[t] # "done"
    /\ pc'[t] = "done"
    /\ Unwrap(ret'[t]).op = "command"

\* the aggregate exists, loads, and the expected version (if any) is the latest
Accepted(b, cmd) ==
    LET l == Latest(b.cache, b.disk, cmd.handle)
    IN /\ Known(b.disk, cmd.handle)
       /\ l.ok
       /\ (IsSome(cmd.version) => Unwrap(cmd.version) = l.val.version)

Processed(b, cmd) == process_command(Latest(b.cache, b.disk, cmd.handle).val, cmd)

HasErrorRecord(d, h) ==
    \E k \in DOMAIN d[h].cmds : d[h].cmds[k].effect.type = "error"

HasSuccessRecord(d, h) ==
    \E k \in DOMAIN d[h].cmds : d[h].cmds[k].effect.type = "success"

----------------------------------------------------------------------------
(* C1  Replay equivalence: after add and any sequence of command calls, a  *)
(* store instance opened on the same storage with an empty cache returns   *)
(* from get_latest the same aggregate, version included, as this instance. *)

ReplayEquivalence ==
    Settled =>
        \A h \in Handles :
            Known(disk, h) =>
                /\ Latest(cache, disk, h).ok
                /\ Latest(EmptyCache, disk, h) = Latest(cache, disk, h)

ReplayWitness ==
    /\ Settled
    /\ IsSome(cache["alice"])
    /\ Unwrap(cache["alice"]).version >= SNAPSHOT_FREQ
    /\ HasErrorRecord(disk, "alice")

(* C2  Concurrency guard: a command whose expected version differs from    *)
(* the latest version fails with ConcurrentModification and leaves every   *)
(* stored record (commands, events, snapshots, info) as it was.            *)

Conflicting(b, cmd) ==
    LET l == Latest(b.cache, b.disk, cmd.handle)
    IN /\ Known(b.disk, cmd.handle)
       /\ l.ok
       /\ IsSome(cmd.version)
       /\ Unwrap(cmd.version) # l.val.version

ConcurrencyGuard ==
    [][\A t \in Threads :
          (CommandReturns(t) /\ Conflicting(Before(t), call'[t])) =>
              /\ ret'[t] = Returned("command", call'[t].handle, Err("ConcurrentModification"))
              /\ disk' = Before(t).disk]_vars

ConcurrencyGuardWitness ==
    \E t \in Threads :
        /\ pc[t] = "done"
        /\ ret[t] = Returned("command", "alice", Err("ConcurrentModification"))
        /\ call[t].version = Some(1)
        /\ HasSuccessRecord(disk, "alice")

(* C5  Error persistence: when process_command fails, command stores one   *)
(* new command record with the error and sequence last_command + 1, no     *)
(* event, saves info with last_command + 1 and last_event unchanged,       *)
(* leaves the aggregate as it was and returns the error.                   *)

Rejecting(b, cmd) == Accepted(b, cmd) /\ ~Processed(b, cmd).ok

ErrorPersisted(b, cmd, d2, c2, r) ==
    LET h == cmd.handle
        old == b.disk[h]
        new == d2[h]
        n == Unwrap(old.info).last_command
    IN /\ DOMAIN new.cmds = (DOMAIN old.cmds) \cup {n + 1}
       /\ n + 1 \notin DOMAIN old.cmds
       /\ \A k \in DOMAIN old.cmds : new.cmds[k] = old.cmds[k]
       /\ new.cmds[n + 1].effect.type = "error"
       /\ new.cmds[n + 1].sequence = n + 1
       /\ new.evts = old.evts
       /\ new.snap = old.snap
       /\ new.bk = old.bk
       /\ IsSome(new.info)
       /\ Unwrap(new.info).last_command = n + 1
       /\ Unwrap(new.info).last_event = Unwrap(old.info).last_event
       /\ Unwrap(new.info).snapshot_version = Unwrap(old.info).snapshot_version
       /\ \A o \in Handles \ {h} : d2[o] = b.disk[o]
       /\ Latest(c2, d2, h) = Latest(b.cache, b.disk, h)
       /\ r = Returned("command", h, Processed(b, cmd))

ErrorPersistence ==
    [][\A t \in Threads :
          (CommandReturns(t) /\ Rejecting(Before(t), call'[t])) =>
              ErrorPersisted(Before(t), call'[t], disk', cache', ret'[t])]_vars

ErrorPersistenceWitness ==
    \E t \in Threads :
        /\ pc[t] = "done"
        /\ ret[t] = Returned("command", "alice", Err("Rejected"))
        /\ HasErrorRecord(disk, "alice")
        /\ HasSuccessRecord(disk, "alice")

-----------------------------------------------------------------------------
(* A store whose clock advances between the calls *)

ClockCommands ==
    {SentCommand("alice", None, [kind |-> k]) :
        k \in {"GoAroundTheSun", "Twice", "Nothing", "Reject"}}

NextClock ==
    \/ Add(Caller, "alice", Times)
    \/ \E cmd \in ClockCommands : Call(Caller, cmd, Times)
    \/ StoreCommand(Caller)
    \/ StoreEvent(Caller)
    \/ StoreSnapshot(Caller)
    \/ Publish(Caller)
    \/ SaveInfo(Caller)
    \/ Return(Caller, NoKeeps)
    \/ GetLatest(Caller, "alice")
    \/ Reopen

SpecClock == Init /\ [][NextClock]_vars

(* C6  No-op: a command for which process_command returns no event returns *)
(* the current aggregate and leaves every stored record, info with         *)
(* last_command, last_event and last_update included, as it was.           *)

NoOp(b, cmd) ==
    /\ Accepted(b, cmd)
    /\ Processed(b, cmd).ok
    /\ Processed(b, cmd).val = <<>>

NoOpWritesNothing ==
    [][\A t \in Threads :
          (CommandReturns(t) /\ NoOp(Before(t), call'[t])) =>
              /\ ret'[t] = Returned("command", call'[t].handle,
                                    Latest(Before(t).cache, Before(t).disk, call'[t].handle))
              /\ disk' = Before(t).disk]_vars

NoOpWitness ==
    \E t \in Threads :
        /\ pc[t] = "done"
        /\ call[t] # NoCall
        /\ call[t].details.kind = "Nothing"
        /\ Unwrap(ret[t]).res.ok
        /\ Unwrap(ret[t]).res.val.version >= 2
        /\ HasErrorRecord(disk, call[t].handle)

(* C7  Command sequence numbering: the k-th stored command record has      *)
(* sequence k, without gap or repeat, and info.last_command is the number  *)
(* of stored command records; calls that store no record use no sequence.  *)

CommandSequences ==
    Settled =>
        \A h \in Handles :
            Known(disk, h) =>
                /\ DOMAIN disk[h].cmds = 1..Unwrap(disk[h].info).last_command
                /\ \A k \in DOMAIN disk[h].cmds : disk[h].cmds[k].sequence = k

CommandSequencesWitness ==
    /\ Settled
    /\ Known(disk, "alice")
    /\ Unwrap(disk["alice"].info).last_command = 2
    /\ HasErrorRecord(disk, "alice")
    /\ HasSuccessRecord(disk, "alice")
    /\ \E t \in Threads :
          /\ pc[t] = "done"
          /\ call[t] # NoCall
          /\ call[t].details.kind \in {"Nothing", "WrongVersion"}

(* C8  Event contiguity: the stored event versions of an aggregate are     *)
(* 0 (the init event) and 1..last_event without gap, and every stored      *)
(* event carries the handle of the aggregate.                              *)

EventContiguity ==
    Settled =>
        \A h \in Handles :
            Known(disk, h) =>
                /\ DOMAIN disk[h].evts = 0..Unwrap(disk[h].info).last_event
                /\ \A v \in DOMAIN disk[h].evts :
                      /\ disk[h].evts[v].handle = h
                      /\ disk[h].evts[v].version = v

EventContiguityWitness ==
    /\ Settled
    /\ Known(disk, "alice")
    /\ Known(disk, "bob")
    /\ Unwrap(disk["alice"].info).last_event >= 3
    /\ Unwrap(disk["bob"].info).last_event >= 1

(* C9  Events of the wrong version or handle: command fails with           *)
(* WrongEventForAggregate, every stored record stays as it was and the     *)
(* cache holds no other aggregate than the latest one.                     *)

WrongEvents(b, cmd) ==
    LET l == Latest(b.cache, b.disk, cmd.handle)
        events == Processed(b, cmd).val
    IN /\ Accepted(b, cmd)
       /\ Processed(b, cmd).ok
       /\ \E i \in 1..Len(events) :
             \/ events[i].version # l.val.version + (i - 1)
             \/ events[i].handle # cmd.handle

WrongEventsRejected ==
    [][\A t \in Threads :
          (CommandReturns(t) /\ WrongEvents(Before(t), call'[t])) =>
              LET b == Before(t)
                  h == call'[t].handle
              IN /\ ret'[t] = Returned("command", h, Err("WrongEventForAggregate"))
                 /\ disk' = b.disk
                 /\ cache'[h] \in {b.cache[h], Some(Latest(b.cache, b.disk, h).val)}
                 /\ \A o \in Handles \ {h} : cache'[o] = b.cache[o]]_vars

WrongEventsWitness ==
    \E t \in Threads :
        /\ pc[t] = "done"
        /\ ret[t] = Returned("command", "alice", Err("WrongEventForAggregate"))
        /\ call[t].details.kind = "WrongSecondHandle"
        /\ HasSuccessRecord(disk, "alice")

(* C3  Two commands for one existing aggregate with the same expected     *)
(* version v, each producing events, one after the other or at the same    *)
(* time: when v is the version either of them finds, exactly one has its   *)
(* events stored and the other fails with ConcurrentModification; never do *)
(* both succeed.                                                           *)

Result(t) == Unwrap(ret[t]).res

SameExpectedVersion(t, u, h, v) ==
    /\ t # u
    /\ pc[t] = "done" /\ pc[u] = "done"
    /\ Unwrap(ret[t]).op = "command" /\ Unwrap(ret[u]).op = "command"
    /\ call[t].handle = h /\ call[u].handle = h
    /\ call[t].version = Some(v) /\ call[u].version = Some(v)
    /\ IsSome(seen[t]) /\ IsSome(seen[u])
    /\ call[t].details.kind \in {"GoAroundTheSun", "ChangeName", "Twice"}
    /\ call[u].details.kind \in {"GoAroundTheSun", "ChangeName", "Twice"}

StoredFromVersion(d, h, v) ==
    {k \in DOMAIN d[h].cmds :
        d[h].cmds[k].version = v /\ d[h].cmds[k].effect.type = "success"}

OneOfTwoPersists ==
    \A t, u \in Threads : \A h \in Handles : \A v \in 1..MaxExpected :
        SameExpectedVersion(t, u, h, v) =>
            /\ ~(Result(t).ok /\ Result(u).ok)
            /\ (seen[t] = Some(v) \/ seen[u] = Some(v)) =>
                  /\ \/ Result(t).ok /\ Result(u) = Err("ConcurrentModification")
                     \/ Result(u).ok /\ Result(t) = Err("ConcurrentModification")
                  /\ Cardinality(StoredFromVersion(disk, h, v)) = 1

OneOfTwoWitness ==
    /\ SameExpectedVersion(1, 2, "alice", 2)
    /\ Result(2).ok
    /\ Result(1) = Err("ConcurrentModification")
    /\ seen[2] = Some(2)

(* C4  Linear order: at most one command is between its first and last     *)
(* write; while it is, the stored records are those it started from plus   *)
(* its own; and whenever no command is in progress the stored log is the   *)
(* log of executing the stored commands one after the other in sequence    *)
(* order, every stored event belonging to exactly one command.             *)

RECURSIVE ApplyAll(_, _)
ApplyAll(agg, events) ==
    IF events = <<>> THEN agg ELSE ApplyAll(apply(agg, Head(events)), Tail(events))

Mismatch == [ok |-> FALSE]

\* execute the stored commands k, k+1, ... in order on agg and compare every
\* outcome with the stored record and events
RECURSIVE SeqExecFrom(_, _, _, _)
SeqExecFrom(d, h, k, agg) ==
    IF k \notin DOMAIN d[h].cmds
    THEN IF \A j \in DOMAIN d[h].cmds : j < k THEN [ok |-> TRUE, agg |-> agg] ELSE Mismatch
    ELSE LET rec == d[h].cmds[k]
             r == process_command(agg, SentCommand(h, None, rec.details))
         IN IF rec.version # agg.version THEN Mismatch
            ELSE IF rec.effect.type = "error"
                 THEN IF r.ok THEN Mismatch ELSE SeqExecFrom(d, h, k + 1, agg)
            ELSE IF ~r.ok THEN Mismatch
            ELSE IF rec.effect.events # [i \in 1..Len(r.val) |-> r.val[i].version]
                 THEN Mismatch
            ELSE IF \E i \in 1..Len(r.val) :
                        ~(HasKey(d[h].evts, r.val[i].version)
                          /\ d[h].evts[r.val[i].version] = r.val[i])
                 THEN Mismatch
            ELSE SeqExecFrom(d, h, k + 1, ApplyAll(agg, r.val))

SeqExec(d, h) == SeqExecFrom(d, h, 1, init(d[h].evts[0]).val)

Owners(d, h, v) ==
    {k \in DOMAIN d[h].cmds :
        /\ d[h].cmds[k].effect.type = "success"
        /\ \E i \in DOMAIN d[h].cmds[k].effect.events : d[h].cmds[k].effect.events[i] = v}

OwnWritesOnly(t) ==
    LET b == Unwrap(pre[t])
        l == loc[t]
        h == l.handle
    IN /\ \A o \in Handles \ {h} : disk[o] = b.disk[o]
       /\ disk[h].info = b.disk[h].info
       /\ (DOMAIN b.disk[h].cmds) \subseteq DOMAIN disk[h].cmds
       /\ (DOMAIN b.disk[h].evts) \subseteq DOMAIN disk[h].evts
       /\ \A k \in DOMAIN disk[h].cmds :
             IF k \in DOMAIN b.disk[h].cmds
             THEN disk[h].cmds[k] = b.disk[h].cmds[k]
             ELSE k = l.builder.sequence
       /\ \A v \in DOMAIN disk[h].evts :
             IF v \in DOMAIN b.disk[h].evts
             THEN disk[h].evts[v] = b.disk[h].evts[v]
             ELSE \E i \in 1..Len(l.events) : l.events[i] = disk[h].evts[v]

LinearOrder ==
    /\ \A t, u \in Threads : (InBody(t) /\ InBody(u)) => t = u
    /\ \A t \in Threads : InBody(t) => OwnWritesOnly(t)
    /\ Settled =>
          \A h \in Handles :
              Known(disk, h) =>
                  /\ SeqExec(disk, h).ok
                  /\ Latest(cache, disk, h) = Ok(SeqExec(disk, h).agg)
                  /\ \A v \in (DOMAIN disk[h].evts) \ {0} :
                        Cardinality(Owners(disk, h, v)) = 1

LinearOrderWitness ==
    /\ pc[1] = "store_evt"
    /\ pc[2] = "wait"
    /\ call[1].handle = call[2].handle
    /\ loc[1].i = 2
    /\ Cardinality(DOMAIN disk["alice"].cmds) = 3

(* C10  Info invariants: after every completed add, command or recover    *)
(* the stored info of each aggregate has snapshot_version <= last_event +  *)
(* 1, last_command >= the number of command records in its scope, and      *)
(* last_event = the highest event version stored in its scope.             *)

InfoHolds(d, h) ==
    LET info == Unwrap(d[h].info)
    IN /\ info.snapshot_version <= info.last_event + 1
       /\ info.last_command >= Cardinality(DOMAIN d[h].cmds)
       /\ DOMAIN d[h].evts # {}
       /\ info.last_event = SetMax(DOMAIN d[h].evts)

InfoInvariants ==
    Settled => \A h \in Handles : Known(disk, h) => InfoHolds(disk, h)

----------------------------------------------------------------------------
(* C11  Snapshot correctness: for every stored snapshot (latest or backup), *)
(* with v the version of the aggregate in it, applying the stored events    *)
(* v..last_event to it gives the aggregate the store holds.  The numbering  *)
(* v+1..last_event of the original statement leaves out the event numbered  *)
(* v, the first one the snapshot has not seen.                              *)

RECURSIVE ApplyRange(_, _, _, _, _)
ApplyRange(d, h, agg, lo, hi) ==
    IF lo > hi THEN agg
    ELSE ApplyRange(d, h, apply(agg, d[h].evts[lo]), lo + 1, hi)

Snapshots(d, h) ==
    {s \in {d[h].snap, d[h].bk} : IsSome(s) /\ ~IsCorrupt(Unwrap(s))}

\* replaying from every snapshot, starting with the event numbered first(v)
SnapshotsReplayFrom(first(_)) ==
    Settled =>
        \A h \in Handles :
            Known(disk, h) =>
                \A s \in Snapshots(disk, h) :
                    ApplyRange(disk, h, Unwrap(s), first(Unwrap(s).version),
                               Unwrap(disk[h].info).last_event)
                        = Latest(cache, disk, h).val

SnapshotCorrect == LET first(v) == v IN SnapshotsReplayFrom(first)

\* the statement as written: events v+1..last_event
SnapshotCorrectFromNext == LET first(v) == v + 1 IN SnapshotsReplayFrom(first)

SnapshotCorrectWitness ==
    /\ Settled
    /\ Known(disk, "alice")
    /\ IsSome(disk["alice"].bk)
    /\ IsSome(disk["alice"].snap)
    /\ Unwrap(disk["alice"].snap).version = SNAPSHOT_FREQ
    /\ Unwrap(disk["alice"].info).last_event >= SNAPSHOT_FREQ

----------------------------------------------------------------------------
(* C12  Listener delivery: every event persisted by a successful command   *)
(* has been handed exactly once to each registered listener, in ascending  *)
(* version order per aggregate; add, failed, rejected and no-op commands   *)
(* hand over nothing, so a listener has heard as many events as commands   *)
(* have persisted.                                                         *)
PersistedByCommands(d, h) ==
    IF Known(d, h)
    THEN [v \in 1..Unwrap(d[h].info).last_event |-> d[h].evts[v]]
    ELSE <<>>

ListenerDelivery ==
    Settled => \A l \in Listeners : \A h \in Handles :
                   heard[l][h] = PersistedByCommands(disk, h)

\* two commands of alice delivered three events, a rejected command and the
\* add delivered none
ListenerDeliveryWitness ==
    /\ Settled
    /\ Known(disk, "alice")
    /\ HasErrorRecord(disk, "alice")
    /\ \A l \in Listeners : Len(heard[l]["alice"]) = 3

----------------------------------------------------------------------------
(* A caller that holds on to the Arcs it is given *)

CowCommands ==
    {SentCommand("alice", None, [kind |-> k]) :
        k \in {"GoAroundTheSun", "Twice", "Nothing", "Reject"}}

NextCow ==
    \/ Add(Caller, "alice", FixedTime)
    \/ \E cmd \in CowCommands : Call(Caller, cmd, FixedTime)
    \/ StoreCommand(Caller)
    \/ StoreEvent(Caller)
    \/ StoreSnapshot(Caller)
    \/ Publish(Caller)
    \/ SaveInfo(Caller)
    \/ Return(Caller, BOOLEAN)
    \/ GetLatest(Caller, "alice")
    \/ Reopen

SpecCow == Init /\ [][NextCow]_vars

(* C13  Copy-on-write isolation: the aggregate behind a handle obtained    *)
(* from get_latest or command never changes; once a later command has      *)
(* stored events for the same aggregate the handle still reads the old     *)
(* version and state, and the cache, when it holds the aggregate, holds a  *)
(* newer one.                                                              *)
CopyOnWrite ==
    IsSome(arcs.kept) =>
        LET k == Unwrap(arcs.kept)
        IN /\ k.cur = k.val
           /\ (k.after > 0 /\ IsSome(cache[k.handle])) =>
                  /\ Unwrap(cache[k.handle]).version > k.cur.version
                  /\ ~k.cached

\* a kept handle at version 1, two commands later: the cache is at version 4
CopyOnWriteWitness ==
    /\ Settled
    /\ IsSome(arcs.kept)
    /\ Unwrap(arcs.kept).after = 2
    /\ Unwrap(arcs.kept).cur.version = 1
    /\ IsSome(cache["alice"])
    /\ Unwrap(cache["alice"]).version = 4

----------------------------------------------------------------------------
(* A store in which one event of alice is damaged *)

\* the store is not reopened and no command record is damaged
NextTail ==
    \/ \E h \in Handles : Add(Caller, h, FixedTime)
    \/ \E cmd \in RecoverCommands : Call(Caller, cmd, FixedTime)
    \/ StoreCommand(Caller)
    \/ StoreEvent(Caller)
    \/ StoreSnapshot(Caller)
    \/ Publish(Caller)
    \/ SaveInfo(Caller)
    \/ Return(Caller, NoKeeps)
    \/ \E v \in 1..(2 * MaxCmds) : CorruptEvent("alice", v, 1)
    \/ Recover(Caller, FixedTime)

SpecTail == Init /\ [][NextTail]_vars

-----------------------------------------------------------------------------
(* C14  Recovery of a corrupt tail: an aggregate has the events 1..n, one  *)
(* per successful command, and the event at version k cannot be loaded.    *)
(* recover then moves the events k..n to surplus, rebuilds the aggregate   *)
(* at version k (snapshot and cache), stores info.last_event = k-1, and    *)
(* the first event of the next successful command is numbered k.           *)
OneEventPerCommand(cmds) ==
    \A s \in DOMAIN cmds :
        /\ ~IsCorrupt(cmds[s])
        /\ cmds[s].effect.type = "success" => Len(cmds[s].effect.events) = 1

\* the events 1..n of h are stored and only the one at version k is corrupt
CorruptTail(d, h, k, n) ==
    /\ Known(d, h)
    /\ DOMAIN d[h].evts = 0..n
    /\ k \in 1..n
    /\ \A v \in 0..n : IsCorrupt(d[h].evts[v]) <=> v = k
    /\ OneEventPerCommand(d[h].cmds)
    /\ \A v \in 1..n : \E s \in DOMAIN d[h].cmds :
           d[h].cmds[s].effect.type = "success" /\ d[h].cmds[s].effect.events = <<v>>

RecoverReturns(t) ==
    /\ pc[t] = "idle"
    /\ pc'[t] = "done"
    /\ Unwrap(ret'[t]).op = "recover"

NextYear(h) == SentCommand(h, None, [kind |-> "GoAroundTheSun"])

TailRecovered(h, k, n) ==
    LET rebuilt_agg == ApplyRange(disk, h, init(disk[h].evts[0]).val, 1, k - 1)
        next == command_begin(cache', disk', NextYear(h), 0)
    IN /\ Unwrap(ret'[Caller]).res.ok
       /\ DOMAIN disk'[h].evts = 0..(k - 1)
       /\ \A v \in 0..(k - 1) : disk'[h].evts[v] = disk[h].evts[v]
       /\ \A v \in k..n : /\ HasKey(disk'[h].surplus_evts, v)
                           /\ disk'[h].surplus_evts[v] = disk[h].evts[v]
       /\ rebuilt_agg.version = k
       /\ disk'[h].snap = Some(rebuilt_agg)
       /\ cache'[h] = Some(rebuilt_agg)
       /\ Unwrap(disk'[h].info).last_event = k - 1
       /\ ~next.done
       /\ next.loc.events[1].version = k

CorruptTailRecovery ==
    [][\A h \in Handles : \A k, n \in 1..(2 * MaxCmds) :
          (RecoverReturns(Caller) /\ CorruptTail(disk, h, k, n)) => TailRecovered(h, k, n)]_vars

\* after a recover that found event 2 of 3 corrupt: the events 2..3 are
\* surplus and the next event will be numbered 2
CorruptTailRecoveryWitness ==
    /\ pc[Caller] = "done"
    /\ Unwrap(ret[Caller]).op = "recover"
    /\ Unwrap(ret[Caller]).res.ok
    /\ DOMAIN disk["alice"].evts = 0..1
    /\ DOMAIN disk["alice"].surplus_evts = 2..3
    /\ IsCorrupt(disk["alice"].surplus_evts[2])
    /\ OneEventPerCommand(disk["alice"].cmds)
    /\ OneEventPerCommand(disk["alice"].surplus_cmds)
    /\ Unwrap(disk["alice"].info).last_event = 1
    /\ Unwrap(cache["alice"]).version = 2

----------------------------------------------------------------------------
(* C15  Recovery idempotence: recover on a healthy store leaves every      *)
(* aggregate's state, event log and command log unchanged (nothing is      *)
(* moved to surplus), and running recover twice leaves the same stored     *)
(* state as running it once.                                               *)
Logs(d, h) ==
    [evts |-> d[h].evts, cmds |-> d[h].cmds,
     surplus_evts |-> d[h].surplus_evts, surplus_cmds |-> d[h].surplus_cmds]

\* every record is readable, info is right and every event is the event of
\* a stored command
Healthy(d) ==
    \A h \in aggregates(d) :
        /\ Known(d, h)
        /\ \A v \in DOMAIN d[h].evts : ~IsCorrupt(d[h].evts[v])
        /\ \A k \in DOMAIN d[h].cmds : ~IsCorrupt(d[h].cmds[k])
        /\ InfoHolds(d, h)
        /\ DOMAIN d[h].evts = 0..Unwrap(d[h].info).last_event
        /\ \A v \in 1..Unwrap(d[h].info).last_event :
               \E k \in DOMAIN d[h].cmds :
                   /\ d[h].cmds[k].effect.type = "success"
                   /\ \E i \in 1..Len(d[h].cmds[k].effect.events) :
                          d[h].cmds[k].effect.events[i] = v

\* this recover step left the logs and the aggregates as they were
RecoverChangedNothing ==
    /\ Unwrap(ret'[Caller]).res.ok
    /\ \A h \in Handles :
          /\ Logs(disk', h) = Logs(disk, h)
          /\ Latest(cache', disk', h) = Latest(cache, disk, h)

\* recover once more, on what this recover step left
RecoverAgain(order) == recover_handles(disk', cache', order, 0)

RecoverIdempotence ==
    [][RecoverReturns(Caller) =>
          /\ Healthy(disk) => RecoverChangedNothing
          /\ \A order \in Listings(disk') : RecoverAgain(order).disk = disk']_vars

----------------------------------------------------------------------------
(* C16  When recover cannot rebuild an aggregate it fails with             *)
(* CouldNotRecover(handle) and the stored records of that aggregate are    *)
(* exactly as they were before recover was called: no command or event     *)
(* was moved to surplus and no snapshot or info was written.               *)
RecoverFails(t) ==
    /\ RecoverReturns(t)
    /\ ~Unwrap(ret'[t]).res.ok

\* the aggregates that recover cannot rebuild
Unrecoverable(d, c) == {h \in aggregates(d) : ~recover_handle(d, c, h, 0).res.ok}

RecoverFailureUntouched ==
    [][RecoverFails(Caller) =>
          /\ Unwrap(ret'[Caller]).res.err = "CouldNotRecover"
          /\ \A h \in Unrecoverable(disk, cache) : disk'[h] = disk[h]]_vars

----------------------------------------------------------------------------
(* C17  When recover fails for one aggregate it still processes every      *)
(* other listed aggregate: each recoverable aggregate ends with a fresh    *)
(* snapshot and info, wherever it stands in the list relative to the       *)
(* failing one.                                                            *)
RecoverContinues ==
    [][RecoverFails(Caller) =>
          \A h \in aggregates(disk) \ Unrecoverable(disk, cache) :
              /\ disk'[h] = recover_handle(disk, cache, h, 0).disk[h]
              /\ cache'[h] = recover_handle(disk, cache, h, 0).cache[h]]_vars

----------------------------------------------------------------------------
(* A store whose files are damaged once more after a recover *)

\* one blob more may be damaged than under SpecRecover
NextSurplus ==
    \/ Add(Caller, "alice", FixedTime)
    \/ \E cmd \in RecoverCommands : Call(Caller, cmd, FixedTime)
    \/ StoreCommand(Caller)
    \/ StoreEvent(Caller)
    \/ StoreSnapshot(Caller)
    \/ Publish(Caller)
    \/ SaveInfo(Caller)
    \/ Return(Caller, NoKeeps)
    \/ \E v \in 1..(2 * MaxCmds) : CorruptEvent("alice", v, MaxCorrupt + 1)
    \/ \E k \in 1..MaxCmds : CorruptCommand("alice", k, MaxCorrupt + 1)
    \/ Recover(Caller, FixedTime)

SpecSurplus == Init /\ [][NextSurplus]_vars

(* C18  Commands and events are never deleted or overwritten by the        *)
(* aggregate store: every command and event record that existed before a   *)
(* command or recover call still exists afterwards with the same content,  *)
(* under the aggregate's scope or under its surplus sub-scope.             *)

\* the record with this key in scope before is, after, in scope or surplus
KeptIn(before, scope, surplus) ==
    \A k \in DOMAIN before :
        \/ HasKey(scope, k) /\ scope[k] = before[k]
        \/ HasKey(surplus, k) /\ surplus[k] = before[k]

RecordsKept(h) ==
    /\ KeptIn(disk[h].evts, disk'[h].evts, disk'[h].surplus_evts)
    /\ KeptIn(disk[h].cmds, disk'[h].cmds, disk'[h].surplus_cmds)
    /\ KeptIn(disk[h].surplus_evts, EmptyMap, disk'[h].surplus_evts)
    /\ KeptIn(disk[h].surplus_cmds, EmptyMap, disk'[h].surplus_cmds)

\* a step of the store, not of the damage done to its files
StoreStep == pc' # pc \/ loc' # loc

NothingLost == [][StoreStep => \A h \in Handles : RecordsKept(h)]_vars

----------------------------------------------------------------------------
(* C19  add for a handle that already has an aggregate does not replace    *)
(* it: the call fails, there is still exactly one init event, at version   *)
(* 0, and the aggregate's events, snapshots, info and the state returned   *)
(* by get_latest are unchanged.                                            *)
AddReturns(t, h) ==
    /\ pc[t] = "idle"
    /\ pc'[t] = "done"
    /\ Unwrap(ret'[t]).op = "add"
    /\ Unwrap(ret'[t]).handle = h

InitEvents(d, h) == {v \in DOMAIN d[h].evts : d[h].evts[v].details.kind = "Init"}

AddKeepsExisting ==
    [][\A h \in Handles :
          (AddReturns(Caller, h) /\ has_aggregate(disk, h)) =>
              /\ ~Unwrap(ret'[Caller]).res.ok
              /\ disk'[h] = disk[h]
              /\ InitEvents(disk', h) = {0}
              /\ Latest(cache', disk', h) = Latest(cache, disk, h)]_vars

\* add was refused for alice, who has had a birthday
AddKeepsExistingWitness ==
    /\ pc[Caller] = "done"
    /\ Unwrap(ret[Caller]).op = "add"
    /\ Unwrap(ret[Caller]).handle = "alice"
    /\ ~Unwrap(ret[Caller]).res.ok
    /\ Known(disk, "alice")
    /\ Unwrap(disk["alice"].info).last_event >= 1

----------------------------------------------------------------------------
(* command_history *)

MaxOffset == 2
MaxRows == 2

\* variant: one row by default
DefaultCriteriaOneRow ==
    [before |-> None, after |-> None, after_version |-> None,
     label_includes |-> None, label_excludes |-> None,
     offset |-> 0, rows_limit |-> Some(1)]

DefaultCriteria ==
    [before |-> None, after |-> None, after_version |-> None,
     label_includes |-> None, label_excludes |-> None,
     offset |-> 0, rows_limit |-> Some(100)]

Criteria ==
    {DefaultCriteria} \cup
    {[DefaultCriteria EXCEPT !.offset = o, !.rows_limit = r,
                             !.after_version = av, !.label_excludes = ex] :
        o \in 0..MaxOffset,
        r \in {None} \cup {Some(n) : n \in 0..MaxRows},
        av \in {None, Some(1)},
        ex \in {None, Some({"GoAroundTheSun"})}}

\* set_includes and set_excludes, alone and together
LabelCriteria ==
    {[DefaultCriteria EXCEPT !.label_includes = inc, !.label_excludes = ex] :
        inc \in {None, Some({}), Some({"GoAroundTheSun"}), Some({"GoAroundTheSun", "Twice"})},
        ex \in {None, Some({"GoAroundTheSun"}), Some({"Reject"})}}

\* variant: the stamp is taken for milliseconds and compared in seconds
matches_timestamp_secs_in_seconds(crit, stamp) ==
    /\ IsSome(crit.before) => ~(stamp \div 1000 > Unwrap(crit.before))
    /\ IsSome(crit.after) => ~(stamp \div 1000 < Unwrap(crit.after))

matches_timestamp_secs(crit, stamp) ==
    /\ IsSome(crit.before) => ~(stamp > Unwrap(crit.before))
    /\ IsSome(crit.after) => ~(stamp < Unwrap(crit.after))

matches_version(crit, version) ==
    IsSome(crit.after_version) => version > Unwrap(crit.after_version)

\* variant: a label that is included matches, excluded or not
matches_label_includes_first(crit, label) ==
    IF IsSome(crit.label_includes) THEN label \in Unwrap(crit.label_includes)
    ELSE IsSome(crit.label_excludes) => label \notin Unwrap(crit.label_excludes)

matches_label(crit, label) ==
    /\ IsSome(crit.label_includes) => label \in Unwrap(crit.label_includes)
    /\ IsSome(crit.label_excludes) => label \notin Unwrap(crit.label_excludes)

matches(record, crit) ==
    /\ matches_timestamp_secs(crit, record.timestamp)
    /\ matches_version(crit, record.version)
    /\ matches_label(crit, record.label)

\* the projection of a stored command to a history record
CommandHistoryRecord(cmd) ==
    [timestamp |-> cmd.time, handle |-> cmd.handle, version |-> cmd.version,
     sequence |-> cmd.sequence, label |-> cmd.details.kind,
     effect |-> cmd.effect.type]

\* one command key of the scan: a record that matches is counted, then
\* skipped while the offset lasts, then returned while rows are left
history_step(acc, record, crit) ==
    IF ~matches(record, crit) THEN acc
    ELSE IF acc.total < crit.offset
         THEN [acc EXCEPT !.total = @ + 1]
    ELSE IF IsSome(crit.rows_limit) /\ Len(acc.commands) >= Unwrap(crit.rows_limit)
         THEN [acc EXCEPT !.total = @ + 1]
    ELSE [acc EXCEPT !.total = @ + 1, !.commands = Append(@, record)]

RECURSIVE history_scan(_, _, _, _, _)
history_scan(d, h, keys, crit, acc) ==
    IF keys = {} THEN Ok(acc)
    ELSE IF ~get_command(d, h, SetMin(keys)).ok THEN get_command(d, h, SetMin(keys))
    ELSE history_scan(d, h, keys \ {SetMin(keys)}, crit,
             history_step(acc, CommandHistoryRecord(get_command(d, h, SetMin(keys)).val),
                          crit))

command_history(d, h, crit) ==
    history_scan(d, h, command_keys_ascending(d, h), crit,
                 [offset |-> crit.offset, total |-> 0, commands |-> <<>>])

History(t, h, crit) ==
    /\ pc[t] = "idle"
    /\ pc' = [pc EXCEPT ![t] = "done"]
    /\ call' = [call EXCEPT ![t] = crit]
    /\ ret' = [ret EXCEPT ![t] = Returned("command_history", h, command_history(disk, h, crit))]
    /\ UNCHANGED <<disk, cache, loc, pre, seen, heard, arcs, kv, signed>>

NextHistory ==
    \/ Add(Caller, "alice", FixedTime)
    \/ \E cmd \in RecoverCommands : Call(Caller, cmd, FixedTime)
    \/ StoreCommand(Caller)
    \/ StoreEvent(Caller)
    \/ StoreSnapshot(Caller)
    \/ Publish(Caller)
    \/ SaveInfo(Caller)
    \/ Return(Caller, NoKeeps)
    \/ \E crit \in Criteria \cup LabelCriteria : History(Caller, "alice", crit)

SpecHistory == Init /\ [][NextHistory]_vars

(* C20  History pagination: command_history returns total = the number of  *)
(* command records that match the filters, whatever offset and rows_limit  *)
(* are, and commands = the matching records in ascending sequence order    *)
(* with the first offset of them skipped and at most rows_limit returned:  *)
(* all the remaining ones when rows_limit is None, 100 by default.         *)
Matching(d, h, crit) ==
    {k \in DOMAIN d[h].cmds : matches(CommandHistoryRecord(d[h].cmds[k]), crit)}

\* the n-th key of S in ascending order
Nth(S, n) == CHOOSE k \in S : Cardinality({j \in S : j < k}) = n - 1

Min(a, b) == IF a < b THEN a ELSE b

Remaining(total, offset) == IF total > offset THEN total - offset ELSE 0

Paginated(d, h, crit, history) ==
    LET matching == Matching(d, h, crit)
        rows == IF crit = DefaultCriteria THEN Min(100, Remaining(history.total, crit.offset))
                ELSE IF IsSome(crit.rows_limit)
                     THEN Min(Unwrap(crit.rows_limit), Remaining(history.total, crit.offset))
                ELSE Remaining(history.total, crit.offset)
    IN /\ history.offset = crit.offset
       /\ history.total = Cardinality(matching)
       /\ history.total =
              command_history(d, h, [crit EXCEPT !.offset = 0, !.rows_limit = None]).val.total
       /\ Len(history.commands) = rows
       /\ \A i \in 1..rows :
              history.commands[i] =
                  CommandHistoryRecord(d[h].cmds[Nth(matching, crit.offset + i)])

HistoryReturned(t) ==
    /\ pc[t] = "done"
    /\ Unwrap(ret[t]).op = "command_history"

HistoryPagination ==
    HistoryReturned(Caller) =>
        /\ Unwrap(ret[Caller]).res.ok
        /\ Paginated(disk, Unwrap(ret[Caller]).handle, call[Caller],
                     Unwrap(ret[Caller]).res.val)

\* three commands, offset 1, one row: total 3 and the command of sequence 2
HistoryPaginationWitness ==
    /\ HistoryReturned(Caller)
    /\ call[Caller].offset = 1
    /\ call[Caller].rows_limit = Some(1)
    /\ Unwrap(ret[Caller]).res.val.total = 3
    /\ Len(Unwrap(ret[Caller]).res.val.commands) = 1
    /\ Unwrap(ret[Caller]).res.val.commands[1].sequence = 2

(* C21  History label filters: with label_includes set every returned      *)
(* record's label is a member of it, with label_excludes set no returned   *)
(* record's label is a member of it, a label in both lists is excluded,    *)
(* and with neither set every label matches: a record is left out only by  *)
(* the time and version filters.                                           *)
Labels(history) == {history.commands[i].label : i \in 1..Len(history.commands)}

LabelFiltered(d, h, crit, history) ==
    /\ IsSome(crit.label_includes) => Labels(history) \subseteq Unwrap(crit.label_includes)
    /\ IsSome(crit.label_excludes) => Labels(history) \cap Unwrap(crit.label_excludes) = {}
    /\ (crit.label_includes = None /\ crit.label_excludes = None) =>
           history.total =
               Cardinality({k \in DOMAIN d[h].cmds :
                               /\ matches_timestamp_secs(crit, d[h].cmds[k].time)
                               /\ matches_version(crit, d[h].cmds[k].version)})
    /\ history.total =
           Cardinality({k \in DOMAIN d[h].cmds :
                           /\ matches_timestamp_secs(crit, d[h].cmds[k].time)
                           /\ matches_version(crit, d[h].cmds[k].version)
                           /\ IsSome(crit.label_includes) =>
                                  d[h].cmds[k].details.kind \in Unwrap(crit.label_includes)
                           /\ IsSome(crit.label_excludes) =>
                                  d[h].cmds[k].details.kind \notin Unwrap(crit.label_excludes)})

HistoryLabelFilters ==
    HistoryReturned(Caller) =>
        /\ Unwrap(ret[Caller]).res.ok
        /\ LabelFiltered(disk, Unwrap(ret[Caller]).handle, call[Caller],
                         Unwrap(ret[Caller]).res.val)

\* GoAroundTheSun is in both lists and stored, Twice is included only: the
\* history holds the Twice command and no other
HistoryLabelFiltersWitness ==
    /\ HistoryReturned(Caller)
    /\ call[Caller].label_includes = Some({"GoAroundTheSun", "Twice"})
    /\ call[Caller].label_excludes = Some({"GoAroundTheSun"})
    /\ \E k \in DOMAIN disk["alice"].cmds : disk["alice"].cmds[k].details.kind = "GoAroundTheSun"
    /\ Unwrap(ret[Caller]).res.val.total = 1
    /\ Labels(Unwrap(ret[Caller]).res.val) = {"Twice"}

----------------------------------------------------------------------------
(* KeyValueStore: keys, values and the calls on one store *)

\* Key::new_global and Key::new_scoped; a scope is the list of its segments
Global == <<>>
Key(scope, name) == [scope |-> scope, name |-> name]

\* key.with_sub_scope(segment): the segment is added at the end of the scope
with_sub_scope(key, sub) == [key EXCEPT !.scope = Append(@, sub)]

SubScopes == {"archived", "corrupt", "surplus"}

\* the values given to store: a String, an Option<String> and a u64
Values ==
    {[ty |-> "String", val |-> Some("content")],
     [ty |-> "OptString", val |-> Some("content")],
     [ty |-> "OptString", val |-> None],
     [ty |-> "u64", val |-> Some("7")]}

Types == {v.ty : v \in Values}

\* serde_json::to_value: None is null, Some(x) is x, a u64 is a number
to_value(v) ==
    IF ~IsSome(v.val) THEN [json |-> "null", text |-> ""]
    ELSE IF v.ty = "u64" THEN [json |-> "number", text |-> Unwrap(v.val)]
    ELSE [json |-> "string", text |-> Unwrap(v.val)]

\* serde_json::from_value::<V>
from_value(ty, value) ==
    IF value.json = "null"
    THEN IF ty = "OptString" THEN Ok([ty |-> ty, val |-> None]) ELSE Err("JsonError")
    ELSE IF (value.json = "number") = (ty = "u64")
         THEN Ok([ty |-> ty, val |-> Some(value.text)])
         ELSE Err("JsonError")

\* serde_json::from_value::<Option<V>>: null is None, any other value is Some
from_value_option(ty, value) ==
    IF value.json = "null" THEN Ok(None)
    ELSE IF from_value(ty, value).ok THEN Ok(Some(from_value(ty, value).val))
    ELSE from_value(ty, value)

\* inner.get and inner.store of kvx on the namespace of the store
get_raw_value(s, ns, key) == IF HasKey(s[ns], key) THEN Some(s[ns][key]) ELSE None

store_raw_value(s, ns, key, value) == [s EXCEPT ![ns] = Put(@, key, value)]

Done(s) == [res |-> Ok("done"), kv |-> s]
Failed(s, e) == [res |-> Err(e), kv |-> s]

store(s, ns, key, v) == Done(store_raw_value(s, ns, key, to_value(v)))

\* the result type makes from_value read an Option<V>
get(s, ns, key, ty) ==
    IF ~IsSome(get_raw_value(s, ns, key)) THEN Ok(None)
    ELSE IF from_value_option(ty, Unwrap(get_raw_value(s, ns, key))).ok
         THEN from_value_option(ty, Unwrap(get_raw_value(s, ns, key)))
    ELSE Err("Other")

\* the closure reads a V; its serde error comes back as a kvx error
get_transactional(s, ns, key, ty) ==
    IF ~IsSome(get_raw_value(s, ns, key)) THEN Ok(None)
    ELSE IF from_value(ty, Unwrap(get_raw_value(s, ns, key))).ok
         THEN Ok(Some(from_value(ty, Unwrap(get_raw_value(s, ns, key))).val))
    ELSE Err("KVError(JsonError)")

has(s, ns, key) == HasKey(s[ns], key)

\* inner.delete: kvx reports a key it does not have
drop_key(s, ns, key) ==
    IF has(s, ns, key) THEN Done([s EXCEPT ![ns] = Del(@, key)])
    ELSE Failed(s, "KVError(UnknownKey)")

wipe(s, ns) == Done([s EXCEPT ![ns] = EmptyMap])

\* variant: the value is copied and the source is kept
move_key_keeping_source(s, ns, from, to) ==
    IF ~has(s, ns, from) THEN Failed(s, "KVError(UnknownKey)")
    ELSE Done([s EXCEPT ![ns] = Put(@, to, s[ns][from])])

\* inner.move_value: kvx renames in one step, over whatever the target held
move_key(s, ns, from, to) ==
    IF ~has(s, ns, from) THEN Failed(s, "KVError(UnknownKey)")
    ELSE Done([s EXCEPT ![ns] = Put(Del(@, from), to, s[ns][from])])

\* variant: the key is moved to the sub-scope of the global scope
archive_key_global(s, ns, key, sub) ==
    move_key(s, ns, key, Key(<<sub>>, key.name))

\* archive_key, archive_corrupt and archive_surplus, by their segment
archive_key(s, ns, key, sub) == move_key(s, ns, key, with_sub_scope(key, sub))

\* inner.list_scopes: every scope that has a key, the global one left out
scopes(s, ns) == {key.scope : key \in DOMAIN s[ns]} \ {Global}

\* keys(scope, ""): the scope is matched exactly
keys(s, ns, scope) == {key \in DOMAIN s[ns] : key.scope = scope}

is_empty(s, ns) == DOMAIN s[ns] = {}

\* variant: only the scopes that are listed are copied
import_listed_scopes(s, ns, other) ==
    LET imported == UNION {keys(s, other, scope) : scope \in scopes(s, other)}
    IN Done([s EXCEPT ![ns] =
                [key \in (DOMAIN @) \cup imported |->
                    IF key \in imported THEN s[other][key] ELSE @[key]]])

\* every key of every scope of other, and of its global scope, is stored here
import(s, ns, other) ==
    LET imported == UNION {keys(s, other, scope) : scope \in scopes(s, other) \cup {Global}}
    IN Done([s EXCEPT ![ns] =
                [key \in (DOMAIN @) \cup imported |->
                    IF key \in imported THEN s[other][key] ELSE @[key]]])

\* inner.migrate_namespace of kvx: the namespace is renamed; a backend that
\* keeps a directory per namespace (strict) refuses a target that has entries
migrate_namespace(s, from, to, strict) ==
    IF strict /\ ~is_empty(s, to) THEN Failed(s, "KVError(NamespaceMigration)")
    ELSE Done([s EXCEPT ![to] = s[from], ![from] = EmptyMap])

\* the store that is wiped is created for namespace, not for archive_ns
migrate_to_archive(s, self, namespace, strict) ==
    migrate_namespace(wipe(s, namespace).kv, self,
                      prefixed_namespace(namespace, "archive"), strict)

\* variant: the current store is not looked at
migrate_to_current_unchecked(s, self, namespace, strict) ==
    migrate_namespace(s, self, namespace, strict)

migrate_to_current(s, self, namespace, strict) ==
    IF ~is_empty(s, namespace) THEN Failed(s, "Other")
    ELSE migrate_namespace(s, self, namespace, strict)

\* one call on a store, from the caller's side: the arguments, then the result
KvCall(t, op, r) ==
    /\ pc[t] = "idle"
    /\ pc' = [pc EXCEPT ![t] = "done"]
    /\ call' = [call EXCEPT ![t] = op]
    /\ ret' = [ret EXCEPT ![t] = Returned(op.op, op.key, r.res)]
    /\ kv' = r.kv
    /\ UNCHANGED <<disk, cache, loc, pre, seen, heard, arcs, signed>>

\* a call may add a key while the namespace holds fewer than MaxKeys keys
Room(ns, key) == has(kv, ns, key) \/ Cardinality(DOMAIN kv[ns]) < MaxKeys

KvStore(t, ns, key, v) ==
    /\ Room(ns, key)
    /\ KvCall(t, [op |-> "store", ns |-> ns, key |-> key, value |-> v], store(kv, ns, key, v))

KvGet(t, ns, key, ty) ==
    KvCall(t, [op |-> "get", ns |-> ns, key |-> key, ty |-> ty],
           [res |-> get(kv, ns, key, ty), kv |-> kv])

\* inner.transaction(scope, ..): one transaction at a time in a scope
scope_free(pcs, calls, ns, scope) ==
    \A u \in Threads :
        pcs[u] \in {"tx_get", "tx_store"} => ~(calls[u].ns = ns /\ calls[u].key.scope = scope)

KvGetTransactional(t, ns, key, ty) ==
    /\ scope_free(pc, call, ns, key.scope)
    /\ KvCall(t, [op |-> "get_transactional", ns |-> ns, key |-> key, ty |-> ty],
              [res |-> get_transactional(kv, ns, key, ty), kv |-> kv])

KvHas(t, ns, key) ==
    KvCall(t, [op |-> "has", ns |-> ns, key |-> key],
           [res |-> Ok(has(kv, ns, key)), kv |-> kv])

KvDropKey(t, ns, key) ==
    KvCall(t, [op |-> "drop_key", ns |-> ns, key |-> key], drop_key(kv, ns, key))

KvWipe(t, ns) ==
    KvCall(t, [op |-> "wipe", ns |-> ns, key |-> Key(Global, "")], wipe(kv, ns))

KvMoveKey(t, ns, from, to) ==
    KvCall(t, [op |-> "move_key", ns |-> ns, key |-> from, to |-> to],
           move_key(kv, ns, from, to))

KvArchive(t, ns, key, sub) ==
    KvCall(t, [op |-> "archive", ns |-> ns, key |-> key, sub |-> sub],
           archive_key(kv, ns, key, sub))

\* store_new: the caller asks for a transaction in the scope of the key
StoreNew(t, ns, key, v) ==
    /\ pc[t] = "idle"
    /\ Room(ns, key)
    /\ pc' = [pc EXCEPT ![t] = "tx_wait"]
    /\ call' = [call EXCEPT ![t] = [op |-> "store_new", ns |-> ns, key |-> key, value |-> v]]
    /\ seen' = [seen EXCEPT ![t] = Some(has(kv, ns, key))]
    /\ UNCHANGED <<disk, cache, loc, ret, pre, heard, arcs, kv, signed>>

\* variant: get and store are called on the store, outside a transaction
TxBeginUnscoped(t) ==
    /\ pc[t] = "tx_wait"
    /\ pc' = [pc EXCEPT ![t] = "tx_get"]
    /\ UNCHANGED <<disk, cache, call, loc, ret, pre, seen, heard, arcs, kv, signed>>

\* inner.transaction(key.scope(), ..): the closure runs once the scope is free
TxBegin(t) ==
    /\ pc[t] = "tx_wait"
    /\ scope_free(pc, call, call[t].ns, call[t].key.scope)
    /\ pc' = [pc EXCEPT ![t] = "tx_get"]
    /\ UNCHANGED <<disk, cache, call, loc, ret, pre, seen, heard, arcs, kv, signed>>

\* kv.get(key)
TxGet(t) ==
    /\ pc[t] = "tx_get"
    /\ loc' = [loc EXCEPT ![t] = [found |-> get_raw_value(kv, call[t].ns, call[t].key)]]
    /\ pc' = [pc EXCEPT ![t] = "tx_store"]
    /\ UNCHANGED <<disk, cache, call, ret, pre, seen, heard, arcs, kv, signed>>

\* None => kv.store(key, value), _ => Err(kvx::Error::Unknown); the
\* transaction ends
TxStore(t) ==
    /\ pc[t] = "tx_store"
    /\ IF IsSome(loc[t].found)
       THEN /\ ret' = [ret EXCEPT ![t] =
                         Returned("store_new", call[t].key, Err("KVError(Unknown)"))]
            /\ kv' = kv
       ELSE /\ ret' = [ret EXCEPT ![t] = Returned("store_new", call[t].key, Ok("done"))]
            /\ kv' = store_raw_value(kv, call[t].ns, call[t].key, to_value(call[t].value))
    /\ loc' = [loc EXCEPT ![t] = NoLoc]
    /\ pc' = [pc EXCEPT ![t] = "done"]
    /\ UNCHANGED <<disk, cache, call, pre, seen, heard, arcs, signed>>

KvKeys == {Key(Global, "a"), Key(<<"s">>, "a"), Key(<<"s">>, "b")}

\* one caller and the store of the current namespace
NextKv ==
    \/ \E key \in KvKeys, v \in Values : KvStore(Caller, Current, key, v)
    \/ \E key \in KvKeys, v \in Values : StoreNew(Caller, Current, key, v)
    \/ TxBegin(Caller)
    \/ TxGet(Caller)
    \/ TxStore(Caller)
    \/ \E key \in KvKeys, ty \in Types : KvGet(Caller, Current, key, ty)
    \/ \E key \in KvKeys, ty \in Types : KvGetTransactional(Caller, Current, key, ty)
    \/ \E key \in KvKeys : KvHas(Caller, Current, key)
    \/ \E key \in KvKeys : KvDropKey(Caller, Current, key)
    \/ KvWipe(Caller, Current)
    \/ \E from \in KvKeys, to \in KvKeys : KvMoveKey(Caller, Current, from, to)
    \/ \E key \in KvKeys, sub \in SubScopes : KvArchive(Caller, Current, key, sub)
    \/ Return(Caller, NoKeeps)

SpecKv == Init /\ [][NextKv]_vars

\* the step in which a call of op returns to t
KvReturns(t, op) ==
    /\ pc[t] # "done"
    /\ pc'[t] = "done"
    /\ call'[t].op = op

(* C22  KVS store/get: after store(k, v), has(k) is true and get(k) returns *)
(* Some(v), whether or not k existed before; for a key that is not stored,  *)
(* has(k) is false and get(k) and get_transactional(k) return None; and     *)
(* get_transactional returns the value that get returns.                    *)
StoreThenGet ==
    [][/\ KvReturns(Caller, "store") =>
             /\ has(kv', Current, call'[Caller].key)
             /\ get(kv', Current, call'[Caller].key, call'[Caller].value.ty)
                    = Ok(Some(call'[Caller].value))
       /\ \A key \in KvKeys, ty \in Types :
             /\ ~has(kv', Current, key) =>
                    /\ get(kv', Current, key, ty) = Ok(None)
                    /\ get_transactional(kv', Current, key, ty) = Ok(None)
             /\ get_transactional(kv', Current, key, ty).ok =>
                    get(kv', Current, key, ty) = get_transactional(kv', Current, key, ty)]_vars

(* C23  store_new(k, v) creates the key when it is absent; when k exists    *)
(* it fails with the Duplicate error and the value stored under k is        *)
(* unchanged.                                                               *)
StoreNewResult(e) ==
    KvReturns(Caller, "store_new") =>
          IF has(kv, Current, call[Caller].key)
          THEN /\ Unwrap(ret'[Caller]).res = Err(e)
               /\ kv' = kv
          ELSE /\ Unwrap(ret'[Caller]).res.ok
               /\ kv' = [kv EXCEPT ![Current] =
                            Put(@, call[Caller].key, to_value(call[Caller].value))]

StoreNewDuplicate == [][StoreNewResult("DuplicateKey")]_vars

----------------------------------------------------------------------------
(* Two writers on one store *)

TxKeys == {Key(Global, "a"), Key(<<"s">>, "a")}
TxValues == {v \in Values : v.ty # "OptString"}

NextTx ==
    \/ \E t \in Threads, key \in TxKeys, v \in TxValues : StoreNew(t, Current, key, v)
    \/ \E t \in Threads : TxBegin(t)
    \/ \E t \in Threads : TxGet(t)
    \/ \E t \in Threads : TxStore(t)
    \/ \E t \in Threads, key \in TxKeys : KvGetTransactional(t, Current, key, "String")
    \/ \E t \in Threads : Return(t, NoKeeps)

SpecTx == Init /\ [][NextTx]_vars

(* C24  When two writers call store_new on the same absent key             *)
(* concurrently, exactly one call succeeds, the other fails and the stored *)
(* value is the winner's: no two transactions are inside the same scope at *)
(* once.                                                                   *)
StoreNewReturned(t) ==
    /\ pc[t] = "done"
    /\ call[t].op = "store_new"

\* both called while the key was absent
Contended(t, u) ==
    /\ StoreNewReturned(t)
    /\ StoreNewReturned(u)
    /\ call[t].key = call[u].key
    /\ seen[t] = Some(FALSE)
    /\ seen[u] = Some(FALSE)

InTransaction(t) == pc[t] \in {"tx_get", "tx_store"}

StoreNewExclusive ==
    \A t \in Threads : \A u \in Threads \ {t} :
        /\ Contended(t, u) =>
              /\ Unwrap(ret[t]).res.ok # Unwrap(ret[u]).res.ok
              /\ Unwrap(ret[t]).res.ok =>
                     get_raw_value(kv, Current, call[t].key) = Some(to_value(call[t].value))
        /\ (InTransaction(t) /\ InTransaction(u)) => call[t].key.scope # call[u].key.scope

\* writer 2 won with its number, writer 1 lost with its string
StoreNewExclusiveWitness ==
    /\ Contended(1, 2)
    /\ call[1].value.ty = "String"
    /\ call[2].value.ty = "u64"
    /\ Unwrap(ret[2]).res.ok
    /\ ~Unwrap(ret[1]).res.ok

(* C25  move_key(a, b) with a present and a # b leaves has(a) false and     *)
(* has(b) true with get(b) the value a held, in one step of the store, so   *)
(* that no state has both keys or neither; when a is absent it fails with   *)
(* the unknown key error and the store is unchanged.                        *)
MoveKeyAtomic ==
    [][KvReturns(Caller, "move_key") =>
          IF has(kv, Current, call'[Caller].key)
          THEN call'[Caller].key # call'[Caller].to =>
                  /\ Unwrap(ret'[Caller]).res.ok
                  /\ ~has(kv', Current, call'[Caller].key)
                  /\ has(kv', Current, call'[Caller].to)
                  /\ get_raw_value(kv', Current, call'[Caller].to)
                         = get_raw_value(kv, Current, call'[Caller].key)
          ELSE /\ Unwrap(ret'[Caller]).res = Err("KVError(UnknownKey)")
               /\ kv' = kv]_vars

\* a number was moved from s/a over the string at s/b
MoveKeyAtomicWitness ==
    /\ pc[Caller] = "done"
    /\ call[Caller].op = "move_key"
    /\ call[Caller].key = Key(<<"s">>, "a")
    /\ call[Caller].to = Key(<<"s">>, "b")
    /\ Unwrap(ret[Caller]).res.ok
    /\ ~has(kv, Current, call[Caller].key)
    /\ get(kv, Current, call[Caller].to, "u64") = Ok(Some([ty |-> "u64", val |-> Some("7")]))
    /\ Cardinality(DOMAIN kv[Current]) = 1

(* C26  archive_key, archive_corrupt and archive_surplus move a key with   *)
(* scope S and name n to S/archived, S/corrupt and S/surplus, under the    *)
(* name n and with its value; afterwards the key is absent from S and      *)
(* every other key is unchanged.                                           *)
ArchiveMoves ==
    [][(KvReturns(Caller, "archive") /\ has(kv, Current, call'[Caller].key)) =>
          LET key == call'[Caller].key
              archived == Key(key.scope \o <<call'[Caller].sub>>, key.name)
          IN /\ Unwrap(ret'[Caller]).res.ok
             /\ DOMAIN kv'[Current] = ((DOMAIN kv[Current]) \ {key}) \cup {archived}
             /\ kv'[Current][archived] = kv[Current][key]
             /\ \A other \in (DOMAIN kv'[Current]) \ {archived} :
                    kv'[Current][other] = kv[Current][other]]_vars

\* s/b went to s/corrupt/b, and s/a stays where it is
ArchiveMovesWitness ==
    /\ pc[Caller] = "done"
    /\ call[Caller].op = "archive"
    /\ call[Caller].key = Key(<<"s">>, "b")
    /\ call[Caller].sub = "corrupt"
    /\ Unwrap(ret[Caller]).res.ok
    /\ DOMAIN kv[Current] =
           {Key(<<"s", "corrupt">>, "b"), Key(<<"s">>, "a")}

----------------------------------------------------------------------------
(* The stores of the current, the upgrade and the archive namespace *)

KvImport(t, ns, other) ==
    KvCall(t, [op |-> "import", ns |-> ns, key |-> Key(Global, ""), other |-> other],
           import(kv, ns, other))

\* current_store.migrate_to_archive(storage_uri, namespace)
KvMigrateToArchive(t, namespace, strict) ==
    KvCall(t, [op |-> "migrate_to_archive", ns |-> namespace, key |-> Key(Global, "")],
           migrate_to_archive(kv, namespace, namespace, strict))

\* upgrade_store.migrate_to_current(storage_uri, namespace); the upgrade
\* store is the one of create_upgrade_store
KvMigrateToCurrent(t, namespace, strict) ==
    KvCall(t, [op |-> "migrate_to_current", ns |-> namespace, key |-> Key(Global, "")],
           migrate_to_current(kv, prefixed_namespace(namespace, "upgrade"), namespace, strict))

NsKeys == {Key(Global, "a"), Key(<<"s">>, "a"), Key(<<"s", "archived">>, "a")}
NsValues == {v \in Values : v.ty # "OptString"}

NextNs ==
    \/ \E ns \in Namespaces, key \in NsKeys, v \in NsValues : KvStore(Caller, ns, key, v)
    \/ \E other \in Namespaces \ {Current} : KvImport(Caller, Current, other)
    \/ \E strict \in BOOLEAN : KvMigrateToArchive(Caller, Current, strict)
    \/ \E strict \in BOOLEAN : KvMigrateToCurrent(Caller, Current, strict)
    \/ Return(Caller, NoKeeps)

SpecNs == Init /\ [][NextNs]_vars

(* C27  After import(other) succeeds, this store has every key of other,   *)
(* in any scope, nested scopes and the global scope included, with the     *)
(* value other has; the keys of this store that other does not have are    *)
(* unchanged.                                                              *)
ImportCopies ==
    [][KvReturns(Caller, "import") =>
          LET this == call'[Caller].ns
              other == call'[Caller].other
          IN /\ Unwrap(ret'[Caller]).res.ok
             /\ \A key \in DOMAIN kv[other] :
                    /\ has(kv', this, key)
                    /\ kv'[this][key] = kv[other][key]
             /\ \A key \in (DOMAIN kv[this]) \ DOMAIN kv[other] :
                    /\ has(kv', this, key)
                    /\ kv'[this][key] = kv[this][key]
             /\ DOMAIN kv'[this] = (DOMAIN kv[this]) \cup DOMAIN kv[other]
             /\ kv'[other] = kv[other]]_vars

\* the upgrade store had a global key and a nested one, this store kept s/a
ImportCopiesWitness ==
    /\ pc[Caller] = "done"
    /\ call[Caller].op = "import"
    /\ call[Caller].other = prefixed_namespace(Current, "upgrade")
    /\ DOMAIN kv[call[Caller].other] = {Key(Global, "a"), Key(<<"s", "archived">>, "a")}
    /\ DOMAIN kv[Current] = NsKeys
    /\ kv[Current][Key(Global, "a")] = kv[call[Caller].other][Key(Global, "a")]
    /\ kv[Current][Key(<<"s">>, "a")] # kv[Current][Key(Global, "a")]

(* C28  migrate_to_archive on the store of namespace ns leaves the         *)
(* namespace archive_<ns> holding exactly the keys and values that ns held *)
(* before the call; what archive_<ns> held before is gone and ns no longer *)
(* holds the data.                                                         *)
MigrateToArchiveKeepsData ==
    [][KvReturns(Caller, "migrate_to_archive") /\ Unwrap(ret'[Caller]).res.ok =>
          LET ns == call'[Caller].ns
              archive_ns == prefixed_namespace(ns, "archive")
          IN /\ kv'[archive_ns] = kv[ns]
             /\ is_empty(kv', ns)]_vars

(* C29  migrate_to_current fails when the target namespace holds any       *)
(* entry and then leaves the upgrade namespace and the target unchanged;   *)
(* when the target is empty, the target afterwards holds exactly the keys  *)
(* and values of the upgrade namespace.                                    *)
MigrateToCurrentRefuses ==
    [][KvReturns(Caller, "migrate_to_current") =>
          LET ns == call'[Caller].ns
              upgrade_ns == prefixed_namespace(ns, "upgrade")
              res == Unwrap(ret'[Caller]).res
          IN IF ~is_empty(kv, ns)
             THEN /\ ~res.ok
                  /\ kv'[ns] = kv[ns]
                  /\ kv'[upgrade_ns] = kv[upgrade_ns]
             ELSE /\ res.ok
                  /\ kv'[ns] = kv[upgrade_ns]]_vars

\* a refused migration: both namespaces hold data after the failed call
MigrateToCurrentRefusesWitness ==
    /\ pc[Caller] = "done"
    /\ call[Caller].op = "migrate_to_current"
    /\ ~Unwrap(ret[Caller]).res.ok
    /\ ~is_empty(kv, Current)
    /\ ~is_empty(kv, prefixed_namespace(Current, "upgrade"))

----------------------------------------------------------------------------
(* SignerProvider: dispatch of sign and sign_one_off to a backend signer *)

SignerProviders == {"OpenSsl", "Kmip", "Pkcs11", "Mock"}
SigningAlgorithms == {"RsaSha256", "EcdsaP256Sha256"}

\* what a backend signer may answer; the backends decide, not the dispatcher
BackendResults == {Ok(<<"Signature">>), Err(<<"KeyNotFound">>), Err(<<"Signer", <<"Other">>>>)}
BackendOneOffResults == {Ok(<<"Signature", "PublicKey">>), Err(<<"Other">>)}

UnsupportedSigningAlg(signing_algorithm) == <<"UnsupportedSigningAlg", signing_algorithm>>

\* From<SignerError> for SigningError<SignerError>
into(err) == <<"Signer", err>>

Invocation(provider, op) == [provider |-> provider, op |-> op]

sign_ungated(provider, algorithm, backend) ==
    [res |-> backend, invoked |-> {Invocation(provider, "sign")}]

sign(provider, algorithm, backend) ==
    IF algorithm # "RsaSha256"
    THEN [res |-> Err(into(UnsupportedSigningAlg(algorithm))), invoked |-> {}]
    ELSE [res |-> backend, invoked |-> {Invocation(provider, "sign")}]

sign_one_off(provider, algorithm, backend) ==
    IF algorithm # "RsaSha256"
    THEN [res |-> Err(UnsupportedSigningAlg(algorithm)), invoked |-> {}]
    ELSE [res |-> backend, invoked |-> {Invocation(provider, "sign_one_off")}]

SignerCall(t, op, r) ==
    /\ pc[t] = "idle"
    /\ pc' = [pc EXCEPT ![t] = "done"]
    /\ call' = [call EXCEPT ![t] = op]
    /\ ret' = [ret EXCEPT ![t] = Returned(op.op, op.provider, r.res)]
    /\ signed' = signed \cup r.invoked
    /\ UNCHANGED <<disk, cache, loc, pre, seen, heard, arcs, kv>>

Sign(t, provider, algorithm, backend) ==
    SignerCall(t, [op |-> "sign", provider |-> provider, algorithm |-> algorithm,
                   backend |-> backend],
               sign(provider, algorithm, backend))

SignOneOff(t, provider, algorithm, backend) ==
    SignerCall(t, [op |-> "sign_one_off", provider |-> provider, algorithm |-> algorithm,
                   backend |-> backend],
               sign_one_off(provider, algorithm, backend))

NextSigner ==
    \/ \E provider \in SignerProviders, algorithm \in SigningAlgorithms,
          backend \in BackendResults : Sign(Caller, provider, algorithm, backend)
    \/ \E provider \in SignerProviders, algorithm \in SigningAlgorithms,
          backend \in BackendOneOffResults : SignOneOff(Caller, provider, algorithm, backend)
    \/ Return(Caller, NoKeeps)

SpecSigner == Init /\ [][NextSigner]_vars

(* C30  For every provider variant, sign and sign_one_off called with a    *)
(* signing algorithm other than RsaSha256 return UnsupportedSigningAlg and *)
(* do not invoke the backend signer; with RsaSha256 the call is forwarded  *)
(* to the backend signer of that variant, whose answer is returned.        *)
SignerAlgorithmGate ==
    [][\A op \in {"sign", "sign_one_off"} :
          KvReturns(Caller, op) =>
              LET c == call'[Caller]
                  res == Unwrap(ret'[Caller]).res
                  unsupported == UnsupportedSigningAlg(c.algorithm)
              IN IF c.algorithm # "RsaSha256"
                 THEN /\ ~res.ok
                      /\ res.err = IF op = "sign" THEN into(unsupported) ELSE unsupported
                      /\ signed' = signed
                 ELSE /\ res = c.backend
                      /\ signed' = signed \cup {Invocation(c.provider, op)}]_vars

\* every variant has been reached by both operations, and the last call was
\* turned away for its algorithm
SignerAlgorithmGateWitness ==
    /\ pc[Caller] = "done"
    /\ call[Caller].op \in {"sign", "sign_one_off"}
    /\ call[Caller].algorithm = "EcdsaP256Sha256"
    /\ ~Unwrap(ret[Caller]).res.ok
    /\ signed = {Invocation(provider, op) :
                    provider \in SignerProviders, op \in {"sign", "sign_one_off"}}

----------------------------------------------------------------------------
(* The Person scenario: alice and her birthdays, year after year *)

MaxYears == 21      \* commands are accepted while fewer command records exist
MaxTwice == 1       \* of which at most this many store two events

NrTwice(d, h) ==
    Cardinality({k \in DOMAIN d[h].cmds : d[h].cmds[k].details.kind = "Twice"})

Year(t, h) ==
    /\ pc[t] = "idle"
    /\ BeginWithin(t, SentCommand(h, None, [kind |-> "GoAroundTheSun"]), FixedTime, MaxYears)

TwoYears(t, h) ==
    /\ pc[t] = "idle"
    /\ NrTwice(disk, h) < MaxTwice
    /\ BeginWithin(t, SentCommand(h, None, [kind |-> "Twice"]), FixedTime, MaxYears)

NextYears ==
    \/ Add(Caller, "alice", FixedTime)
    \/ Year(Caller, "alice")
    \/ TwoYears(Caller, "alice")
    \/ StoreCommand(Caller)
    \/ StoreEvent(Caller)
    \/ StoreSnapshot(Caller)
    \/ Publish(Caller)
    \/ SaveInfo(Caller)
    \/ Return(Caller, NoKeeps)

SpecYears == Init /\ [][NextYears]_vars

(* C31  Snapshot schedule: during command a snapshot is stored exactly     *)
(* when applying an event brings the aggregate version to a multiple of    *)
(* SNAPSHOT_FREQ = 5, and info.snapshot_version is then set to that         *)
(* version; starting from add, 21 single-event commands write snapshots at *)
(* the versions 5, 10, 15 and 20 only and end with info.last_event = 21    *)
(* and info.last_command = 21.                                             *)

\* the step of command that stores and applies one event
EventApplied(t) ==
    /\ pc[t] = "store_evt"
    /\ pc'[t] # "done"

\* the step of command that stores a snapshot
SnapshotStored(t, h) ==
    /\ disk'[h].snap # disk[h].snap
    /\ InBody(t)

\* the highest multiple of SNAPSHOT_FREQ up to version
LastDue(version) == (version \div SNAPSHOT_FREQ) * SNAPSHOT_FREQ

\* the snapshots a store holds after add and single- or two-event commands
\* up to the aggregate version: the last due one, the one before as backup
ScheduledSnapshots(d, h, version) ==
    LET due == LastDue(version)
        info == Unwrap(d[h].info)
    IN /\ info.snapshot_version = due
       /\ Unwrap(d[h].snap).version = IF due = 0 THEN 1 ELSE due
       /\ due = 0 => d[h].bk = None
       /\ due = SNAPSHOT_FREQ => Unwrap(d[h].bk).version = 1
       /\ due > SNAPSHOT_FREQ => Unwrap(d[h].bk).version = due - SNAPSHOT_FREQ

SingleEvents(d, h) ==
    \A k \in DOMAIN d[h].cmds :
        d[h].cmds[k].effect.type = "success" /\ Len(d[h].cmds[k].effect.events) = 1

SnapshotSchedule ==
    [][\A t \in Threads : \A h \in Handles :
          /\ (EventApplied(t) /\ loc[t].handle = h) =>
                 /\ (pc'[t] = "snapshot") <=> (loc'[t].agg.version % SNAPSHOT_FREQ = 0)
                 /\ pc'[t] = "snapshot" =>
                        loc'[t].info.snapshot_version = loc'[t].agg.version
                 /\ disk'[h].snap = disk[h].snap
          /\ (pc[t] = "snapshot" /\ loc[t].handle = h) =>
                 /\ disk'[h].snap = Some(loc[t].agg)
                 /\ disk'[h].bk = disk[h].snap
          /\ SnapshotStored(t, h) =>
                 /\ pc[t] = "snapshot"
                 /\ Unwrap(disk'[h].snap).version % SNAPSHOT_FREQ = 0
          /\ (CommandReturns(t) /\ call'[t].handle = h /\ Unwrap(ret'[t]).res.ok) =>
                 /\ ScheduledSnapshots(disk', h, Unwrap(ret'[t]).res.val.version)
                 /\ (Unwrap(disk'[h].info).last_command = 21 /\ SingleEvents(disk', h)) =>
                        /\ Unwrap(disk'[h].info).last_event = 21
                        /\ Unwrap(disk'[h].info).snapshot_version = 20
                        /\ Unwrap(disk'[h].snap).version = 20
                        /\ Unwrap(disk'[h].bk).version = 15
                        /\ Unwrap(ret'[t]).res.val.age = 21]_vars

\* add and 21 birthdays, one per command
SnapshotScheduleWitness ==
    /\ pc[Caller] = "done"
    /\ Unwrap(ret[Caller]).op = "command"
    /\ Unwrap(ret[Caller]).res.ok
    /\ Unwrap(disk["alice"].info).last_command = 21
    /\ SingleEvents(disk, "alice")
    /\ Unwrap(disk["alice"].snap).version = 20

(* C32  Listeners are notified only after successful persistence: at the   *)
(* moment a listener receives an event of a command, the command record,   *)
(* every event of that command, any due snapshot and the updated info      *)
(* record have all been stored.                                            *)

\* the step in which the listeners are handed the events of t's command
Listening(t) ==
    /\ pc[t] = "publish"
    /\ heard' # heard

\* the command record, the events and the due snapshots of t's command
RecordsStored(d, l) ==
    LET h == l.handle
    IN /\ HasKey(d[h].cmds, l.builder.sequence)
       /\ d[h].cmds[l.builder.sequence] = finish_with_events(l.builder, l.events)
       /\ \A i \in 1..Len(l.events) :
              /\ HasKey(d[h].evts, l.events[i].version)
              /\ d[h].evts[l.events[i].version] = l.events[i]
              /\ (l.events[i].version + 1) % SNAPSHOT_FREQ = 0 =>
                     \E s \in {d[h].snap, d[h].bk} :
                         IsSome(s) /\ Unwrap(s).version = l.events[i].version + 1

InfoStored(d, l) == d[l.handle].info = Some(l.info)

RecordsBeforeListeners ==
    [][\A t \in Threads : Listening(t) => RecordsStored(disk, loc[t])]_vars

ListenersAfterPersistence ==
    [][\A t \in Threads :
          Listening(t) => RecordsStored(disk, loc[t]) /\ InfoStored(disk, loc[t])]_vars

----------------------------------------------------------------------------
(* A second store instance on the same storage *)

\* the loop over the events of a command, from the first to the last: store,
\* apply, snapshot when due
RECURSIVE events_stored(_, _, _, _, _)
events_stored(d, h, agg, info, events) ==
    IF events = <<>> THEN Ok([disk |-> d, agg |-> agg, info |-> info])
    ELSE LET r == store_event(d, Head(events))
             a == apply(agg, Head(events))
         IN IF ~r.ok THEN r
            ELSE events_stored(IF snapshot_due(a) THEN store_snapshot(r.val, h, a) ELSE r.val,
                               h, a,
                               IF snapshot_due(a)
                               THEN [info EXCEPT !.snapshot_version = a.version] ELSE info,
                               Tail(events))

\* the writes of a command that produced events (b, as command_begin left
\* it): the command record, the events and snapshots, info
command_written(d, b) ==
    LET c == store_command(d, finish_with_events(b.loc.builder, b.loc.events))
        e == events_stored(c.val, b.loc.handle, b.loc.agg, b.loc.info, b.loc.events)
    IN IF ~c.ok THEN c
       ELSE IF ~e.ok THEN e
       ELSE Ok(save_info(e.val.disk, b.loc.handle, e.val.info))

\* a command that another instance, which has just been opened, runs to its
\* end on the storage of this one
Elsewhere(cmd) ==
    /\ \A t \in Threads : pc[t] = "idle"
    /\ NrCommands(disk) < MaxCmds
    /\ LET b == command_begin(EmptyCache, disk, cmd, 0)
       IN /\ ~b.done
          /\ b.loc.res.ok
          /\ command_written(disk, b).ok
          /\ disk' = command_written(disk, b).val
    /\ UNCHANGED <<cache, pc, call, loc, ret, pre, seen, heard, arcs, kv, signed>>

NextShared ==
    \/ Add(Caller, "alice", FixedTime)
    \/ \E cmd \in CowCommands : Call(Caller, cmd, FixedTime)
    \/ StoreCommand(Caller)
    \/ StoreEvent(Caller)
    \/ StoreSnapshot(Caller)
    \/ Publish(Caller)
    \/ SaveInfo(Caller)
    \/ Return(Caller, NoKeeps)
    \/ GetLatest(Caller, "alice")
    \/ \E cmd \in CowCommands : Elsewhere(cmd)

SpecShared == Init /\ [][NextShared]_vars

(* C33  get_latest returns the aggregate with every stored event applied:  *)
(* when the cached instance is older than the storage (events numbered     *)
(* from the cached version on exist, written by another store instance on  *)
(* the same storage), the returned aggregate has version = highest stored  *)
(* event version + 1, the missing events applied in ascending order.       *)
GetLatestReturns(t, h) ==
    /\ pc[t] = "idle"
    /\ pc'[t] = "done"
    /\ Unwrap(ret'[t]).op = "get_latest"
    /\ Unwrap(ret'[t]).handle = h

\* the cached instance of h is behind the stored events
Stale(c, d, h) ==
    /\ IsSome(c[h])
    /\ HasKey(d[h].evts, Unwrap(c[h]).version)

GetLatestIsLatest ==
    [][\A h \in Handles :
          (GetLatestReturns(Caller, h) /\ Known(disk, h)) =>
              LET res == Unwrap(ret'[Caller]).res
                  last == SetMax(DOMAIN disk[h].evts)
              IN /\ res.ok
                 /\ res.val.version = last + 1
                 /\ res.val = ApplyRange(disk, h, init(disk[h].evts[0]).val, 1, last)
                 /\ Stale(cache, disk, h) =>
                        res.val = ApplyRange(disk, h, Unwrap(cache[h]),
                                             Unwrap(cache[h]).version, last)]_vars

\* the cache held alice at version 2 when get_latest returned her at version 4
GetLatestIsLatestWitness ==
    /\ pc[Caller] = "done"
    /\ Unwrap(ret[Caller]).op = "get_latest"
    /\ Unwrap(ret[Caller]).res.ok
    /\ Unwrap(ret[Caller]).res.val.version = 4
    /\ IsSome(cache["alice"])
    /\ Unwrap(cache["alice"]).version = 2

----------------------------------------------------------------------------
(* C34  After recover, info.last_command is the sequence of the last good  *)
(* command, i.e. the last command in ascending order that could be read    *)
(* and whose every referenced event could be loaded; that command is still *)
(* in the aggregate's scope, and the first failing command and all         *)
(* commands after it are in the surplus sub-scope.                         *)

\* the command record reads and every event it refers to loads
GoodCommand(d, h, k) ==
    /\ get_command(d, h, k).ok
    /\ LET events == effect_events(get_command(d, h, k).val)
       IN IsSome(events) =>
              \A i \in 1..Len(Unwrap(events)) :
                  /\ get_event(d, h, Unwrap(events)[i]).ok
                  /\ IsSome(get_event(d, h, Unwrap(events)[i]).val)

\* the commands from the first failing one on
Failing(d, h) ==
    {k \in DOMAIN d[h].cmds : \E j \in DOMAIN d[h].cmds : j <= k /\ ~GoodCommand(d, h, j)}

LastGood(d, h) ==
    IF (DOMAIN d[h].cmds) \ Failing(d, h) = {} THEN 0
    ELSE SetMax((DOMAIN d[h].cmds) \ Failing(d, h))

RecoverKeepsLastGood ==
    [][(RecoverReturns(Caller) /\ Unwrap(ret'[Caller]).res.ok) =>
          \A h \in aggregates(disk) :
              /\ Unwrap(disk'[h].info).last_command = LastGood(disk, h)
              /\ DOMAIN disk'[h].cmds = (DOMAIN disk[h].cmds) \ Failing(disk, h)
              /\ \A k \in Failing(disk, h) :
                     /\ HasKey(disk'[h].surplus_cmds, k)
                     /\ disk'[h].surplus_cmds[k] = disk[h].cmds[k]]_vars

----------------------------------------------------------------------------
(* Commands a millisecond apart, and the history filtered by time *)

\* Time::now() in milliseconds, around the bound of the criteria
FilterTimes == {999, 1000, 1001}

\* set_before, set_after, set_after_version and set_excludes; every row
TimeCriteria ==
    {[DefaultCriteria EXCEPT !.before = b, !.after = a, !.after_version = av,
                             !.label_excludes = ex, !.rows_limit = None] :
        b \in {None, Some(1000)},
        a \in {None, Some(1000)},
        av \in {None, Some(2)},
        ex \in {None, Some({"Reject"})}}

NextFilter ==
    \/ Add(Caller, "alice", FilterTimes)
    \/ \E cmd \in RecoverCommands : Call(Caller, cmd, FilterTimes)
    \/ StoreCommand(Caller)
    \/ StoreEvent(Caller)
    \/ StoreSnapshot(Caller)
    \/ Publish(Caller)
    \/ SaveInfo(Caller)
    \/ Return(Caller, NoKeeps)
    \/ \E crit \in TimeCriteria : History(Caller, "alice", crit)

SpecFilter == Init /\ [][NextFilter]_vars

(* C35  A history record passes the time filter iff after <= timestamp <=  *)
(* before for each bound that is set (both bounds inclusive, compared in   *)
(* the unit of the record's millisecond timestamp) and passes the version  *)
(* filter iff after_version is unset or the record's version is strictly   *)
(* greater than after_version; a record matches only when the time, the    *)
(* version and the label filter all pass.                                  *)
PassesTime(crit, timestamp) ==
    /\ IsSome(crit.after) => Unwrap(crit.after) <= timestamp
    /\ IsSome(crit.before) => timestamp <= Unwrap(crit.before)

PassesVersion(crit, version) ==
    crit.after_version = None \/ version > Unwrap(crit.after_version)

PassesLabel(crit, label) ==
    /\ IsSome(crit.label_includes) => label \in Unwrap(crit.label_includes)
    /\ IsSome(crit.label_excludes) => label \notin Unwrap(crit.label_excludes)

\* the sequences of the stored commands whose record passes the three filters
Passing(d, h, crit) ==
    {k \in DOMAIN d[h].cmds :
        /\ PassesTime(crit, CommandHistoryRecord(d[h].cmds[k]).timestamp)
        /\ PassesVersion(crit, CommandHistoryRecord(d[h].cmds[k]).version)
        /\ PassesLabel(crit, CommandHistoryRecord(d[h].cmds[k]).label)}

Returned_sequences(history) ==
    {history.commands[i].sequence : i \in 1..Len(history.commands)}

HistoryTimeVersionFilters ==
    HistoryReturned(Caller) =>
        LET h == Unwrap(ret[Caller]).handle
            crit == call[Caller]
        IN /\ Unwrap(ret[Caller]).res.ok
           /\ \A k \in DOMAIN disk[h].cmds :
                  /\ matches_timestamp_secs(crit, CommandHistoryRecord(disk[h].cmds[k]).timestamp)
                         <=> PassesTime(crit, CommandHistoryRecord(disk[h].cmds[k]).timestamp)
                  /\ matches_version(crit, CommandHistoryRecord(disk[h].cmds[k]).version)
                         <=> PassesVersion(crit, CommandHistoryRecord(disk[h].cmds[k]).version)
                  /\ matches(CommandHistoryRecord(disk[h].cmds[k]), crit)
                         <=> k \in Passing(disk, h, crit)
           /\ crit.rows_limit = None =>
                  Returned_sequences(Unwrap(ret[Caller]).res.val) = Passing(disk, h, crit)
           /\ Unwrap(ret[Caller]).res.val.total = Cardinality(Passing(disk, h, crit))

\* commands stamped 999, 1000 and 1001 and both bounds at 1000: only the
\* command stamped 1000 is returned
HistoryTimeVersionFiltersWitness ==
    /\ HistoryReturned(Caller)
    /\ call[Caller].before = Some(1000)
    /\ call[Caller].after = Some(1000)
    /\ call[Caller].after_version = None
    /\ {disk["alice"].cmds[k].time : k \in DOMAIN disk["alice"].cmds} = FilterTimes
    /\ Unwrap(ret[Caller]).res.val.total = 1
    /\ Unwrap(ret[Caller]).res.val.commands[1].timestamp = 1000

----------------------------------------------------------------------------
(* A key store whose writes may fail *)

\* store_command, store_event, store_snapshot or save_info returns an error
\* (the disk is full, the file cannot be written): command returns it
StorageError(t) ==
    /\ pc[t] \in {"store_cmd", "store_evt", "snapshot", "save_info"}
    /\ Fail(t, Err("KeyStoreError"))

FaultCommands ==
    {SentCommand("alice", v, [kind |-> k]) :
        v \in {None, Some(1)},
        k \in {"GoAroundTheSun", "Twice", "Reject", "WrongVersion"}}

NextFaults ==
    \/ Add(Caller, "alice", FixedTime)
    \/ \E cmd \in FaultCommands : Call(Caller, cmd, FixedTime)
    \/ StoreCommand(Caller)
    \/ StoreEvent(Caller)
    \/ StoreSnapshot(Caller)
    \/ Publish(Caller)
    \/ SaveInfo(Caller)
    \/ StorageError(Caller)
    \/ Return(Caller, NoKeeps)
    \/ GetLatest(Caller, "alice")

SpecFaults == Init /\ [][NextFaults]_vars

(* C36  Whenever command returns an error of any kind                      *)
(* (ConcurrentModification, a process_command error,                       *)
(* WrongEventForAggregate, or a storage error raised while the command     *)
(* record, an event, a snapshot or info is being written), a following     *)
(* get_latest returns an aggregate with the same version and state as      *)
(* before the command: no prefix of the command's events becomes visible.  *)
CommandFails(t) ==
    /\ CommandReturns(t)
    /\ ~Unwrap(ret'[t]).res.ok

FailedCommandInvisible ==
    [][\A t \in Threads :
          (CommandFails(t) /\ Known(Before(t).disk, call'[t].handle)) =>
              Latest(cache', disk', call'[t].handle)
                  = Latest(Before(t).cache, Before(t).disk, call'[t].handle)]_vars

----------------------------------------------------------------------------
(* A process that stops in the middle of a command, and the store reopened *)

\* warm: get_latest for every listed handle, the first failure ends it
RECURSIVE warm_handles(_, _, _)
warm_next(g, d, handles) ==
    IF ~g.res.ok THEN [res |-> Err("WarmupFailed"), cache |-> g.cache]
    ELSE warm_handles(g.cache, d, handles)

warm_handles(c, d, handles) ==
    IF handles = <<>> THEN [res |-> Ok("all"), cache |-> c]
    ELSE warm_next(get_latest_no_lock(c, d, Head(handles)), d, Tail(handles))

Warm(t) ==
    /\ \A u \in Threads : pc[u] = "idle"
    /\ \E order \in Listings(disk) :
          /\ cache' = warm_handles(cache, disk, order).cache
          /\ ret' = [ret EXCEPT ![t] =
                       Returned("warm", "all", warm_handles(cache, disk, order).res)]
    /\ pc' = [pc EXCEPT ![t] = "done"]
    /\ UNCHANGED <<disk, call, loc, pre, seen, heard, arcs, kv, signed>>

\* the process stops between two writes of command; DiskAggregateStore::new
\* on the same storage starts with an empty cache and recover is not run
Crash(t) ==
    /\ InBody(t)
    /\ pc' = [pc EXCEPT ![t] = "idle"]
    /\ call' = [call EXCEPT ![t] = NoCall]
    /\ loc' = [loc EXCEPT ![t] = NoLoc]
    /\ ret' = [ret EXCEPT ![t] = None]
    /\ pre' = [pre EXCEPT ![t] = None]
    /\ seen' = [seen EXCEPT ![t] = None]
    /\ cache' = EmptyCache
    /\ arcs' = NoArcs
    /\ UNCHANGED <<disk, heard, kv, signed>>

NextCrash ==
    \/ Add(Caller, "alice", FixedTime)
    \/ \E cmd \in RecoverCommands : Call(Caller, cmd, FixedTime)
    \/ StoreCommand(Caller)
    \/ StoreEvent(Caller)
    \/ StoreSnapshot(Caller)
    \/ Publish(Caller)
    \/ SaveInfo(Caller)
    \/ Return(Caller, NoKeeps)
    \/ Crash(Caller)
    \/ Warm(Caller)

SpecCrash == Init /\ [][NextCrash]_vars

(* C37  If the process stops at any point between the writes of a          *)
(* successful command (command record, events, snapshot, info) and the     *)
(* store is reopened without running recover, then either warm fails for   *)
(* that aggregate or later commands keep the log consistent: the next      *)
(* command record gets a sequence not used by any stored command record,   *)
(* and after it info.last_event equals the highest stored event version.   *)

\* warm would succeed on this storage
WarmSucceeds(d) ==
    \A order \in Listings(d) : warm_handles(EmptyCache, d, order).res.ok

\* command has built the record it is about to store
RecordBuilt(t) ==
    /\ pc[t] = "idle"
    /\ pc'[t] = "store_cmd"

CrashKeepsLogConsistent ==
    [][\A t \in Threads :
          /\ (RecordBuilt(t) /\ WarmSucceeds(disk)) =>
                 loc'[t].builder.sequence \notin DOMAIN disk[loc'[t].handle].cmds
          /\ (CommandReturns(t) /\ pc[t] = "save_info" /\ WarmSucceeds(Before(t).disk)) =>
                 Unwrap(disk'[call'[t].handle].info).last_event
                     = SetMax(DOMAIN disk'[call'[t].handle].evts)]_vars

----------------------------------------------------------------------------
(* C38  After recover succeeds for an aggregate, every event left in the   *)
(* aggregate's scope with version >= 1 is referenced by the Success effect *)
(* of a command record left in the same scope, and every event referenced  *)
(* by such a command record is present: no command survives with only part *)
(* of its events, also when a multi-event command lost an event in the     *)
(* middle of its list.                                                     *)

\* the versions the Success effects of the command records in scope refer to
Referenced(d, h) ==
    UNION {{Unwrap(effect_events(d[h].cmds[k]))[i] :
                i \in 1..Len(Unwrap(effect_events(d[h].cmds[k])))} :
           k \in {j \in DOMAIN d[h].cmds :
                     ~IsCorrupt(d[h].cmds[j]) /\ IsSome(effect_events(d[h].cmds[j]))}}

RecoverLeavesWholeCommands ==
    [][(RecoverReturns(Caller) /\ Unwrap(ret'[Caller]).res.ok) =>
          \A h \in aggregates(disk) :
              (DOMAIN disk'[h].evts) \ {0} = Referenced(disk', h)]_vars

----------------------------------------------------------------------------
(* recover called while a command is between its writes *)

\* recover takes no lock: another caller runs it while a command is in its
\* body
RecoverMeanwhile(t, times) ==
    /\ pc[t] = "idle"
    /\ \E u \in Threads \ {t} : InBody(u)
    /\ \E order \in Listings(disk), now \in Now(disk, times) :
          recovered(t, recover_handles(disk, cache, order, now))
    /\ pc' = [pc EXCEPT ![t] = "done"]
    /\ UNCHANGED <<call, loc, pre, seen, heard, arcs, kv, signed>>

\* a command entered after the other callers have taken their results
CallAlone(t, cmd, times) ==
    /\ \A u \in Threads \ {t} : pc[u] = "idle"
    /\ Call(t, cmd, times)

NextMeanwhile ==
    \/ Add(Caller, "alice", FixedTime)
    \/ \E cmd \in RecoverCommands : CallAlone(Caller, cmd, FixedTime)
    \/ StoreCommand(Caller)
    \/ StoreEvent(Caller)
    \/ StoreSnapshot(Caller)
    \/ Publish(Caller)
    \/ SaveInfo(Caller)
    \/ \E t \in Threads : Return(t, NoKeeps)
    \/ \E t \in Threads \ {Caller} : RecoverMeanwhile(t, FixedTime)

SpecMeanwhile == Init /\ [][NextMeanwhile]_vars

(* C39  recover and command on the same store do not interfere: when a     *)
(* command for an aggregate runs concurrently with recover, the command's  *)
(* record and events are never moved to surplus as a side effect, and the  *)
(* info and cache entry left at the end reflect the command                *)
(* (info.last_event and info.last_command are not overwritten with values  *)
(* computed before the command).                                           *)

\* what thread t has written so far of the command it is in
WrittenCommands(t) ==
    IF pc[t] = "store_cmd" THEN {} ELSE {loc[t].builder.sequence}

WrittenEvents(t) ==
    {loc[t].events[i].version : i \in 1..(loc[t].i - 1)}

\* the last of the two calls returns
BothReturned(t, u) ==
    /\ pc'[t] = "done"
    /\ pc'[u] = "done"
    /\ Unwrap(ret'[t]).op = "command"
    /\ Unwrap(ret'[u]).op = "recover"
    /\ Unwrap(ret'[t]).res.ok
    /\ Unwrap(ret'[u]).res.ok

RecoverSparesCommand ==
    [][\A t \in Threads : \A u \in Threads \ {t} :
          /\ (RecoverReturns(u) /\ InBody(t)) =>
                 /\ WrittenCommands(t) \subseteq DOMAIN disk'[loc[t].handle].cmds
                 /\ WrittenEvents(t) \subseteq DOMAIN disk'[loc[t].handle].evts
          /\ BothReturned(t, u) =>
                 /\ Unwrap(disk'[call'[t].handle].info).last_event
                        = Unwrap(ret'[t]).res.val.version - 1
                 /\ Unwrap(disk'[call'[t].handle].info).last_command
                        = SetMax(DOMAIN disk'[call'[t].handle].cmds
                                   \cup DOMAIN disk'[call'[t].handle].surplus_cmds)
                 /\ cache'[call'[t].handle] = Some(Unwrap(ret'[t]).res.val)]_vars

----------------------------------------------------------------------------
(* add with an init event the aggregate rejects *)

NextReject ==
    \/ \E h \in Handles : AddAs(Caller, h, Names \cup RejectedNames, FixedTime)
    \/ \E cmd \in RecoverCommands : Call(Caller, cmd, FixedTime)
    \/ StoreCommand(Caller)
    \/ StoreEvent(Caller)
    \/ StoreSnapshot(Caller)
    \/ Publish(Caller)
    \/ SaveInfo(Caller)
    \/ Return(Caller, NoKeeps)
    \/ \E h \in Handles : GetLatest(Caller, h)

SpecReject == Init /\ [][NextReject]_vars

(* C40  When add fails with InitError because init rejects the init event, *)
(* nothing is left behind for that handle: no init event, snapshot or info *)
(* record is stored, has(handle) is false, the handle is not listed, and a *)
(* later add for the same handle behaves as a first add.                   *)
InitRejected(t, h) ==
    /\ AddReturns(t, h)
    /\ Unwrap(ret'[t]).res = Err("InitError")

\* a first add: the aggregate at version 1 is returned, cached and stored
FirstAdd(d, c, h, name) ==
    LET r == add_effect(d, c, InitPersonEvent(h, name), 0)
    IN /\ r.res = init(InitPersonEvent(h, name))
       /\ has_aggregate(r.disk, h)
       /\ Known(r.disk, h)

InitErrorLeavesNothing ==
    [][\A t \in Threads : \A h \in Handles :
          InitRejected(t, h) =>
              /\ ~HasKey(disk'[h].evts, 0)
              /\ disk'[h].snap = None
              /\ disk'[h].info = None
              /\ ~has_aggregate(disk', h)
              /\ h \notin aggregates(disk')
              /\ \A name \in Names : FirstAdd(disk', cache', h, name)]_vars

====
